---- MODULE Spec2Model ----
(***************************************************************************)
(* A model of shogun: the dispatch registry (dispatch/registry.py), the    *)
(* dispatch rules (dispatch/concrete/*.py, dispatch/record_class.py), the  *)
(* parser builder and the namespace unflattener (argparse_/parse.py).      *)
(*                                                                         *)
(* Strings on which the code works character by character (field names,    *)
(* flag aliases, keys of the flat mapping) are sequences of code points:   *)
(* 45 is '-', 95 is '_', 49 is '1', 97..122 are 'a'..'z'.  Python values   *)
(* are records [t |-> type name, v |-> repr].                              *)
(***************************************************************************)
EXTENDS Integers, Sequences, FiniteSets, TLC

\* ------------------------------------------------------------------ bounds

\* register() calls made on all registries together in one behaviour.
MaxRegs == 3

\* ------------------------------------------------------- dispatch/base.py

LOWEST == 1
GENERIC_CONTAINERS == 2
SIMPLE_TYPES == 3
USER_HIGH_PRIORITY == 4

\* The concrete dispatcher classes of the repository, and a class a host
\* application declares: DispatcherBase accepts every priority >= 0.
Dispatchers ==
    { "DispatcherBool", "DispatcherEnum", "DispatcherLiteral", "DispatcherDefault",
      "DispatcherGenericContainer", "DispatcherIsAttrs", "DispatcherUserLow" }

\* The priorities a dispatcher class can have.
Priorities == 0..USER_HIGH_PRIORITY

\* The priority class attribute of each dispatcher class.
priority(d) ==
    CASE d = "DispatcherBool" -> 1
      [] d = "DispatcherEnum" -> 1
      [] d = "DispatcherLiteral" -> 1
      [] d = "DispatcherDefault" -> LOWEST
      [] d = "DispatcherGenericContainer" -> GENERIC_CONTAINERS
      [] d = "DispatcherIsAttrs" -> SIMPLE_TYPES
      [] d = "DispatcherUserLow" -> 0

\* ------------------------------------------------------------ Python values

\* A Python value: its type's name and its repr.  A list of str is held as its
\* elements joined by commas ("" for the empty list).
V(t, v) == [t |-> t, v |-> v]

\* dataclasses.MISSING / attr.NOTHING: the sentinel of a field without default.
MISSING == V("_MISSING_TYPE", "MISSING")

\* The Enum classes of the schemas: FoodEnum(Enum) has gnocchi = 0 and
\* kimchi = 1; Level(IntEnum) has low = 0 and high = 1.
EnumClasses == {"FoodEnum", "Level"}

\* field.type.__members__: the member names, in definition order.
EnumMembers(cls) ==
    CASE cls = "FoodEnum" -> <<"gnocchi", "kimchi">>
      [] cls = "Level" -> <<"low", "high">>

\* Python's truth value of a value (bool(value)): members of a plain Enum are
\* all true, members of an IntEnum follow int, MISSING is a plain object.
Truthy(val) ==
    CASE val.t = "bool" -> val.v = "True"
      [] val.t = "int" -> val.v # "0"
      [] val.t = "str" -> val.v # ""
      [] val.t = "list" -> val.v # ""
      [] val.t = "NoneType" -> FALSE
      [] val.t = "Level" -> val.v # "low"
      [] OTHER -> TRUE

\* ------------------------------------------------------------ shogun/utils.py

\* filter_dict(dct, remove_keys)
filter_dict(dct, remove_keys) ==
    [key \in (DOMAIN dct) \ remove_keys |-> dct[key]]

\* {**a, **b}: the entries of b override those of a.
Merge(a, b) == b @@ a

\* dct.get(key, dflt)
Get(dct, key, dflt) == IF key \in DOMAIN dct THEN dct[key] ELSE dflt

\* The mapping without entries.
EmptyDict == [key \in {} |-> key]

\* ------------------------------------------------------- records (RecordField)

\* A field is [name, type, default, default_factory, metadata]: type is
\* [kind, cls], default is a value (MISSING when none is declared),
\* default_factory the name of the factory ("" when none is declared).

\* DataField.default / AttrField.default: the factory's result for a default
\* factory, else the declared default (MISSING when there is none).  The
\* factory of a nested record field is called by the host constructor only.
default(field) ==
    CASE field.default_factory = "" -> field.default
      [] field.default_factory = "list" -> V("list", "")
      [] field.default_factory = "int" -> V("int", "0")
      [] OTHER -> V(field.default_factory, "factory()")

\* A field wrapper for which no field is required.
is_required_never(field) == FALSE

\* DataField.is_required
is_required(field) == default(field) = MISSING

\* RecordField.has_default
has_default(field) == ~ is_required(field)

\* RecordField.argparse_parse: metadata.get("argparse_parse"); "None" is None.
argparse_parse(field) == Get(field.metadata, "argparse_parse", "None")

\* RecordField.type_converter
type_converter(field) ==
    IF argparse_parse(field) # "None" THEN argparse_parse(field) ELSE field.type.cls

\* Whether the field's type implements the ShogunArgparseParse protocol; the
\* generic aliases of the schemas (Sequence[str]) do not.
has_shogun_argparse_parse(field) == FALSE

\* -------------------------------------------------------------- str methods

\* s.startswith(p)
StartsWith(s, p) == Len(s) >= Len(p) /\ SubSeq(s, 1, Len(p)) = p

\* s[i:] for a Python index i >= 0
SliceFrom(s, i) == IF i >= Len(s) THEN <<>> ELSE SubSeq(s, i + 1, Len(s))

\* s.replace(old, new) for single characters
StrReplace(s, old, new) == [i \in 1..Len(s) |-> IF s[i] = old THEN new ELSE s[i]]

\* Python's order on str: by code point, a proper prefix first.
RECURSIVE StrLess(_, _)
StrLess(s, t) ==
    IF t = <<>> THEN FALSE
    ELSE IF s = <<>> THEN TRUE
    ELSE IF s[1] # t[1] THEN s[1] < t[1]
    ELSE StrLess(Tail(s), Tail(t))

\* sorted(names) for a set of str
RECURSIVE SortedStrs(_)
SortedStrs(S) ==
    IF S = {} THEN <<>>
    ELSE LET m == CHOOSE x \in S : \A y \in S \ {x} : StrLess(x, y)
         IN <<m>> \o SortedStrs(S \ {m})

\* ------------------------------------------------------ the record classes

\* A field of a record class.
Field(name, kind, cls, dflt, factory, metadata) ==
    [name |-> name, type |-> [kind |-> kind, cls |-> cls], default |-> dflt,
     default_factory |-> factory, metadata |-> metadata]

\* The attrs classes the schemas nest, with their fields in declaration order:
\*   Furniture: x: str
\*   Room:      f: Furniture = factory(Furniture);  b_c: int = 3
\*   Suite:     f: Furniture;  fx: int = 0
\*   Short:     n: int, with the alias -n
\*   Empty:     no fields
RecordClasses == {"Furniture", "Room", "Suite", "Short", "Empty"}

\* RecordClass.fields_dict().values() of a nested class
ClassFields(cls) ==
    CASE cls = "Furniture" ->
           << Field(<<120>>, "str", "str", MISSING, "", EmptyDict) >>
      [] cls = "Room" ->
           << Field(<<102>>, "record", "Furniture", MISSING, "Furniture", EmptyDict),
              Field(<<98, 95, 99>>, "int", "int", V("int", "3"), "", EmptyDict) >>
      [] cls = "Suite" ->
           << Field(<<102>>, "record", "Furniture", MISSING, "", EmptyDict),
              Field(<<102, 120>>, "int", "int", V("int", "0"), "", EmptyDict) >>
      [] cls = "Short" ->
           << Field(<<110>>, "int", "int", MISSING, "",
                    "aliases" :> << <<45, 110>> >>) >>
      [] cls = "Empty" -> << >>

\* RecordClass.wrap_class(cls): the wrapper of a record class, with the class
\* and its fields.
wrap_class(cls) == [cls |-> cls, fields |-> ClassFields(cls)]

\* ------------------------------------------------- argparse_/utils.py, action.py

\* A flag name that keeps the underscores of the field name.
field_name_to_arg_name_plain(name, underscore_to_hyphen) == <<45, 45>> \o name

\* field_name_to_arg_name(name, underscore_to_hyphen)
field_name_to_arg_name(name, underscore_to_hyphen) ==
    <<45, 45>> \o (IF underscore_to_hyphen THEN StrReplace(name, 95, 45) ELSE name)

\* common_kwargs(field)
common_kwargs(field) ==
    Merge("type" :> field.type.cls, filter_dict(field.metadata, {"aliases", "converter"}))

\* FieldAction(field, kwargs): __post_init__ sets the aliases.
FieldAction(field, kwargs) ==
    [field |-> field, kwargs |-> kwargs, underscore_to_hyphen |-> TRUE,
     _aliases |-> << field_name_to_arg_name(field.name, TRUE) >>
                    \o Get(field.metadata, "aliases", << >>)]

\* FieldAction.add_alias_prefix(prefix): the action with every alias rewritten,
\* or the AssertionError of the first alias that does not start with "--".
add_alias_prefix(action, prefix) ==
    IF \E k \in 1..Len(action._aliases) : SubSeq(action._aliases[k], 1, 2) # <<45, 45>>
    THEN [err |-> "AssertionError", action |-> action]
    ELSE [err |-> "",
          action |-> [action EXCEPT !._aliases =
                        [k \in 1..Len(action._aliases) |->
                           <<45, 45>> \o prefix \o <<45>> \o SliceFrom(action._aliases[k], 2)]]]

\* ------------------------------------------------------- dispatch/concrete

\* What build_actions returns or raises: err is "" and actions the FieldActions,
\* or err names the exception raised.
Built(actions) == [err |-> "", actions |-> actions]
Raised(err) == [err |-> err, actions |-> << >>]

\* get_generic_origin(type_) is not None: typing.get_origin of a parametrized
\* generic and of a Literal is not None, of a class it is None.
has_generic_origin(field_type) == field_type.kind \in {"generic", "literal"}

\* get_generic_args(field.type) of a Literal type
LiteralValues(cls) == IF cls = "Literal[r,b]" THEN <<"r", "b">> ELSE << >>

\* DispatcherIsSubclass.is_type: issubclass(field_type, cls.type_), False for
\* the typing generics.
DispatcherIsSubclass_is_type(type_, field_type) ==
    CASE type_ = "bool" -> field_type.kind = "bool"
      [] type_ = "Enum" -> field_type.kind = "enum"

\* DispatcherLiteral.is_type
DispatcherLiteral_is_type(field_type) == field_type.kind = "literal"

\* DispatcherGenericContainer.is_type
DispatcherGenericContainer_is_type(field_type) == has_generic_origin(field_type)

\* DispatcherIsAttrs.is_type: attr.has(field_type)
DispatcherIsAttrs_is_type(field_type) == field_type.kind = "record"

\* dispatcher.is_type(field_type), by the class of the dispatcher.  The rule of
\* the host application is a catch-all.
is_type(d, field_type) ==
    CASE d = "DispatcherBool" -> DispatcherIsSubclass_is_type("bool", field_type)
      [] d = "DispatcherEnum" -> DispatcherIsSubclass_is_type("Enum", field_type)
      [] d = "DispatcherLiteral" -> DispatcherLiteral_is_type(field_type)
      [] d = "DispatcherDefault" -> TRUE
      [] d = "DispatcherGenericContainer" -> DispatcherGenericContainer_is_type(field_type)
      [] d = "DispatcherIsAttrs" -> DispatcherIsAttrs_is_type(field_type)
      [] d = "DispatcherUserLow" -> TRUE

\* DispatcherDefault.build_action(field, **kwargs)
DispatcherDefault_build_action(field, kwargs) ==
    FieldAction(field,
        Merge(Merge(("default" :> default(field)) @@ ("required" :> is_required(field)),
                    common_kwargs(field)),
              kwargs))

\* A bool rule that builds store_true whatever the default is.
DispatcherBool_build_action_store_true(field) ==
    FieldAction(field,
        Merge(filter_dict(common_kwargs(field), {"type"}), "action" :> "store_true"))

\* DispatcherBool.build_action(field)
DispatcherBool_build_action(field) ==
    FieldAction(field,
        Merge(filter_dict(common_kwargs(field), {"type"}),
              "action" :> (IF Truthy(default(field)) /\ has_default(field)
                           THEN "store_false" ELSE "store_true")))

\* The closure enum_type_func that DispatcherEnum.build_action defines over
\* field.type.
enum_type_func(cls) ==
    CASE cls = "FoodEnum" -> "enum_type_func[FoodEnum]"
      [] cls = "Level" -> "enum_type_func[Level]"

\* DispatcherEnum.build_action(field)
DispatcherEnum_build_action(field) ==
    DispatcherDefault_build_action(field,
        ("type" :> enum_type_func(field.type.cls)) @@ ("choices" :> field.type.cls)
          @@ ("metavar" :> EnumMembers(field.type.cls)))

\* DispatcherLiteral.build_actions(field)
DispatcherLiteral_build_actions(field) ==
    Built(<< DispatcherDefault_build_action(field,
               ("type" :> "literal_type_func[Literal[r,b]]") @@ ("choices" :> field.type.cls)
                 @@ ("metavar" :> LiteralValues(field.type.cls))) >>)

\* A generic-container rule without the check of the converter.
DispatcherGenericContainer_build_actions_unchecked(field) ==
    Built(<< DispatcherDefault_build_action(field, "type" :> type_converter(field)) >>)

\* DispatcherGenericContainer.build_actions(field)
DispatcherGenericContainer_build_actions(field) ==
    IF argparse_parse(field) = "None" /\ ~ has_shogun_argparse_parse(field)
    THEN Raised("ValueError: Generic container types")
    ELSE Built(<< DispatcherDefault_build_action(field, "type" :> type_converter(field)) >>)

\* build_actions of the rule of the host application
DispatcherUserLow_build_actions(field) ==
    Built(<< DispatcherDefault_build_action(field, "type" :> "user_low_func") >>)

\* ----------------------------------------------------- dispatch/registry.py

\* A registry's _dispatch maps a priority to the list of the dispatchers
\* registered under it, in the order of their registration.  A priority that
\* is no key of the dict has the empty list here: setdefault(priority, []),
\* get(priority, []) and the loop of dispatchers() make no difference between
\* the two.

\* The keys in increasing order: sorted(...) without reverse=True.
RECURSIVE SortedAscending(_)
SortedAscending(S) ==
    IF S = {} THEN << >>
    ELSE LET m == CHOOSE x \in S : \A y \in S : x <= y
         IN <<m>> \o SortedAscending(S \ {m})

\* The keys of a dict of priorities, sorted(..., reverse=True).
RECURSIVE SortedReverse(_)
SortedReverse(S) ==
    IF S = {} THEN << >>
    ELSE LET m == CHOOSE x \in S : \A y \in S : y <= x
         IN <<m>> \o SortedReverse(S \ {m})

RECURSIVE ConcatLists(_, _)
ConcatLists(dct, keys) ==
    IF keys = << >> THEN << >>
    ELSE dct[Head(keys)] \o ConcatLists(dct, Tail(keys))

\* TypeRegistry.dispatchers(): everything the generator yields, in order.
dispatchers(self) == ConcatLists(self, SortedReverse(DOMAIN self))

\* The index of the last dispatcher of ds that accepts field_type, 0 if none:
\* a loop that does not return at its first match.
RECURSIVE LastMatch(_, _, _)
LastMatch(ds, field_type, i) ==
    IF i > Len(ds) THEN 0
    ELSE LET later == LastMatch(ds, field_type, i + 1)
         IN IF later # 0 THEN later
            ELSE IF is_type(ds[i], field_type) THEN i ELSE 0

\* The index of the first dispatcher of ds that accepts field_type, 0 if none.
RECURSIVE FirstMatch(_, _, _)
FirstMatch(ds, field_type, i) ==
    IF i > Len(ds) THEN 0
    ELSE IF is_type(ds[i], field_type) THEN i
    ELSE FirstMatch(ds, field_type, i + 1)

RECURSIVE TypeRegistry_build_actions(_, _, _)
RECURSIVE DispatcherIsRecordClass_build_actions(_, _)
RECURSIVE SubFieldActions(_, _, _, _)

\* dispatcher.build_actions(field), by the class of the dispatcher; GlobalRegistry
\* is the _dispatch of the global registry.
dispatcher_build_actions(d, GlobalRegistry, field) ==
    CASE d = "DispatcherBool" -> Built(<< DispatcherBool_build_action(field) >>)
      [] d = "DispatcherEnum" -> Built(<< DispatcherEnum_build_action(field) >>)
      [] d = "DispatcherLiteral" -> DispatcherLiteral_build_actions(field)
      [] d = "DispatcherDefault" ->
           Built(<< DispatcherDefault_build_action(field, EmptyDict) >>)
      [] d = "DispatcherGenericContainer" -> DispatcherGenericContainer_build_actions(field)
      [] d = "DispatcherIsAttrs" -> DispatcherIsRecordClass_build_actions(GlobalRegistry, field)
      [] d = "DispatcherUserLow" -> DispatcherUserLow_build_actions(field)

\* TypeRegistry.build_actions(self, field)
TypeRegistry_build_actions(self, GlobalRegistry, field) ==
    LET ds == dispatchers(self)
        i == FirstMatch(ds, field.type, 1)
    IN IF i = 0 THEN Raised("ValueError: Unexpected type for field")
       ELSE dispatcher_build_actions(ds[i], GlobalRegistry, field)

\* add_alias_prefix on each of sub_actions, from the k-th on.
RECURSIVE PrefixAll(_, _, _)
PrefixAll(sub_actions, prefix, k) ==
    IF k > Len(sub_actions) THEN Built(<< >>)
    ELSE LET one == add_alias_prefix(sub_actions[k], prefix)
         IN IF one.err # "" THEN Raised(one.err)
            ELSE LET rest == PrefixAll(sub_actions, prefix, k + 1)
                 IN IF rest.err # "" THEN rest
                    ELSE Built(<< one.action >> \o rest.actions)

\* The loop of DispatcherIsRecordClass.build_actions over the sub-fields, from
\* the k-th on.
SubFieldActions(GlobalRegistry, sub_fields, prefix, k) ==
    IF k > Len(sub_fields) THEN Built(<< >>)
    ELSE LET sub_actions == TypeRegistry_build_actions(GlobalRegistry, GlobalRegistry,
                                                       sub_fields[k])
         IN IF sub_actions.err # "" THEN sub_actions
            ELSE LET prefixed == PrefixAll(sub_actions.actions, prefix, 1)
                 IN IF prefixed.err # "" THEN prefixed
                    ELSE LET rest == SubFieldActions(GlobalRegistry, sub_fields, prefix, k + 1)
                         IN IF rest.err # "" THEN rest
                            ELSE Built(prefixed.actions \o rest.actions)

\* DispatcherIsRecordClass.build_actions(field)
DispatcherIsRecordClass_build_actions(GlobalRegistry, field) ==
    SubFieldActions(GlobalRegistry, wrap_class(field.type.cls).fields,
                    StrReplace(field.name, 95, 45), 1)

\* A register that keeps no duplicates.
register_once(self, dispatcher_type) ==
    IF \E i \in 1..Len(self[priority(dispatcher_type)]) :
          self[priority(dispatcher_type)][i] = dispatcher_type
    THEN self
    ELSE [self EXCEPT ![priority(dispatcher_type)] = Append(@, dispatcher_type)]

\* A deregister that drops every dispatcher of the priority.
deregister_priority(self, dispatcher_type) ==
    [self EXCEPT ![priority(dispatcher_type)] = << >>]

\* TypeRegistry.register(dispatcher_type): the new _dispatch.
register(self, dispatcher_type) ==
    [self EXCEPT ![priority(dispatcher_type)] = Append(@, dispatcher_type)]

\* list.remove(x): the list without its first x (ValueError, which deregister
\* ignores, leaves it as it is).
ListRemove(list, x) ==
    IF \E i \in 1..Len(list) : list[i] = x
    THEN LET i == CHOOSE i \in 1..Len(list) :
                    list[i] = x /\ \A j \in 1..(i - 1) : list[j] # x
         IN SubSeq(list, 1, i - 1) \o SubSeq(list, i + 1, Len(list))
    ELSE list

\* TypeRegistry.deregister(dispatcher_type): the new _dispatch.
deregister(self, dispatcher_type) ==
    [self EXCEPT ![priority(dispatcher_type)] = ListRemove(@, dispatcher_type)]

\* TypeRegistry.clear(): the new _dispatch.
clear(self) == [p \in Priorities |-> << >>]

\* A _dispatch that every instance shares with the global registry's.
shared_dispatch(GlobalRegistry) == GlobalRegistry

\* TypeRegistry(): the _dispatch of the new instance, from default_factory=dict,
\* whatever the _dispatch of the global registry holds.
default_factory(GlobalRegistry) == [p \in Priorities |-> << >>]

\* --------------------------------------------- argparse (the parsing primitive)

\* enum_type_func(value) of the closure over the Enum class cls:
\*   result = field.type.__members__.get(value); if not result: raise ...
EnumTypeFuncCall(cls, token) ==
    IF /\ \E k \in 1..Len(EnumMembers(cls)) : EnumMembers(cls)[k] = token
       /\ Truthy(V(cls, token))
    THEN [err |-> "", val |-> V(cls, token)]
    ELSE [err |-> "ArgumentTypeError: invalid choice", val |-> MISSING]

\* Calling a type converter on a str: the value, or err when it raises.  int
\* parses the numerals, str and bool take everything (bool of a non-empty str is
\* True), split_comma is the converter of the tests (x.split(",")), an Enum
\* class looks its argument up by value, Sequence[str] cannot be instantiated.
\* A record class is the converter of a flag only when no nested-record rule
\* took the field, which the schemas parsed here exclude.
Convert(fn, token) ==
    CASE fn = "int" ->
           IF token \in {"0", "3", "5"} THEN [err |-> "", val |-> V("int", token)]
           ELSE [err |-> "ValueError", val |-> MISSING]
      [] fn = "str" -> [err |-> "", val |-> V("str", token)]
      [] fn = "bool" -> [err |-> "", val |-> V("bool", "True")]
      [] fn = "user_low_func" -> [err |-> "", val |-> V(fn, token)]
      [] fn = "split_comma" -> [err |-> "", val |-> V("list", token)]
      [] fn = "enum_type_func[FoodEnum]" -> EnumTypeFuncCall("FoodEnum", token)
      [] fn = "enum_type_func[Level]" -> EnumTypeFuncCall("Level", token)
      [] fn = "literal_type_func[Literal[r,b]]" ->
           IF \E k \in 1..Len(LiteralValues("Literal[r,b]")) :
                    LiteralValues("Literal[r,b]")[k] = token
           THEN [err |-> "", val |-> V("str", token)]
           ELSE [err |-> "ArgumentTypeError: invalid choice", val |-> MISSING]
      [] OTHER -> [err |-> "ValueError", val |-> MISSING]

\* The options add_argument accepts for a store action and for a toggle.
StoreOptions ==
    {"type", "default", "required", "choices", "metavar", "help", "nargs", "const", "dest"}
ToggleOptions == {"default", "required", "help", "dest"}

\* The dest add_argument derives from the option strings: the first long one
\* (else the first), without its leading hyphens, the others turned into "_".
RECURSIVE LStripHyphens(_)
LStripHyphens(s) == IF s # << >> /\ s[1] = 45 THEN LStripHyphens(Tail(s)) ELSE s

DestOf(option_strings) ==
    LET long == SelectSeq(option_strings, LAMBDA o : SubSeq(o, 1, 2) = <<45, 45>>)
        first == IF long # << >> THEN long[1] ELSE option_strings[1]
    IN StrReplace(LStripHyphens(first), 45, 95)

\* parser.add_argument(*aliases, **kwargs) on the declared arguments: the new
\* list, or the error raised (an option string declared twice, an option the
\* action class does not take).
add_argument(declared, aliases, kwargs) ==
    LET action == Get(kwargs, "action", "store")
        allowed == IF action = "store" THEN StoreOptions ELSE ToggleOptions
    IN IF (DOMAIN kwargs) \ ({"action"} \cup allowed) # {}
       THEN [err |-> "TypeError: unexpected keyword argument", declared |-> declared]
       ELSE IF \E i \in 1..Len(declared) : \E j \in 1..Len(declared[i].option_strings) :
                  \E k \in 1..Len(aliases) : declared[i].option_strings[j] = aliases[k]
       THEN [err |-> "ArgumentError: conflicting option string", declared |-> declared]
       ELSE [err |-> "",
             declared |-> Append(declared,
                 [option_strings |-> aliases, dest |-> DestOf(aliases), action |-> action,
                  kwargs |-> kwargs])]

\* The value of an argument that argv does not supply, before the conversion
\* of a str default.
ActionDefault(a) ==
    IF "default" \in DOMAIN a.kwargs THEN a.kwargs["default"]
    ELSE CASE a.action = "store_true" -> V("bool", "False")
           [] a.action = "store_false" -> V("bool", "True")
           [] OTHER -> V("NoneType", "None")

\* The converter of a store action: its type option, else the identity on str.
ActionConvert(a, token) ==
    IF "type" \in DOMAIN a.kwargs
    THEN Convert(a.kwargs["type"], token)
    ELSE [err |-> "", val |-> V("str", token)]

\* value in action.choices, for an argument declared with choices: the members
\* of an Enum class, the values of a Literal, else the listed values.
ChoiceOk(a, val) ==
    IF "choices" \notin DOMAIN a.kwargs THEN TRUE
    ELSE LET choices == a.kwargs["choices"]
         IN IF choices \in EnumClasses THEN val.t = choices
            ELSE \E k \in 1..Len(LiteralValues(choices)) : LiteralValues(choices)[k] = val.v

\* The index of the declared argument that has the option string, 0 if none.
ActionOf(declared, flag) ==
    IF \E i \in 1..Len(declared) : \E j \in 1..Len(declared[i].option_strings) :
           declared[i].option_strings[j] = flag
    THEN CHOOSE i \in 1..Len(declared) :
           \E j \in 1..Len(declared[i].option_strings) : declared[i].option_strings[j] = flag
    ELSE 0

\* parse_args consuming argv from its k-th entry on; an entry is [flag, token],
\* a toggle takes no token.  The message of an ArgumentTypeError is the parse
\* error, every other exception of a converter is reported as an invalid value.
RECURSIVE ConsumeArgv(_, _, _, _, _)
ConsumeArgv(declared, argv, k, namespace, seen) ==
    IF k > Len(argv) THEN [err |-> "", namespace |-> namespace, seen |-> seen]
    ELSE LET i == ActionOf(declared, argv[k].flag)
         IN IF i = 0
            THEN [err |-> "error: unrecognized arguments", namespace |-> namespace, seen |-> seen]
            ELSE LET a == declared[i]
                 IN IF a.action = "store_true"
                    THEN ConsumeArgv(declared, argv, k + 1,
                                     (a.dest :> V("bool", "True")) @@ namespace, seen \cup {i})
                    ELSE IF a.action = "store_false"
                    THEN ConsumeArgv(declared, argv, k + 1,
                                     (a.dest :> V("bool", "False")) @@ namespace, seen \cup {i})
                    ELSE LET c == ActionConvert(a, argv[k].token)
                         IN IF c.err = "ArgumentTypeError: invalid choice"
                            THEN [err |-> "error: invalid choice", namespace |-> namespace,
                                  seen |-> seen]
                            ELSE IF c.err # ""
                            THEN [err |-> "error: invalid value", namespace |-> namespace,
                                  seen |-> seen]
                            ELSE IF ~ ChoiceOk(a, c.val)
                            THEN [err |-> "error: invalid choice", namespace |-> namespace,
                                  seen |-> seen]
                            ELSE ConsumeArgv(declared, argv, k + 1,
                                             (a.dest :> c.val) @@ namespace, seen \cup {i})

\* The namespace after the arguments argv did not supply got their defaults: a
\* str default goes through the converter.
RECURSIVE ApplyDefaults(_, _, _, _)
ApplyDefaults(declared, i, namespace, seen) ==
    IF i > Len(declared) THEN [err |-> "", namespace |-> namespace]
    ELSE LET a == declared[i]
         IN IF i \in seen THEN ApplyDefaults(declared, i + 1, namespace, seen)
            ELSE IF Get(a.kwargs, "required", FALSE)
            THEN [err |-> "error: the following arguments are required", namespace |-> namespace]
            ELSE IF a.action = "store" /\ ActionDefault(a).t = "str"
            THEN LET c == ActionConvert(a, ActionDefault(a).v)
                 IN IF c.err # ""
                    THEN [err |-> "error: invalid value", namespace |-> namespace]
                    ELSE ApplyDefaults(declared, i + 1, (a.dest :> c.val) @@ namespace, seen)
            ELSE ApplyDefaults(declared, i + 1, namespace, seen)

\* vars(parser.parse_args(argv)): the flat mapping from dest to value, or the
\* parse error.
parse_args(declared, argv) ==
    LET dests == {declared[i].dest : i \in 1..Len(declared)}
        \* every dest starts with the default of the first argument that has it
        start == [d \in dests |->
                    ActionDefault(declared[CHOOSE i \in 1..Len(declared) :
                        declared[i].dest = d /\ \A j \in 1..(i - 1) : declared[j].dest # d])]
        consumed == ConsumeArgv(declared, argv, 1, start, {})
    IN IF consumed.err # "" THEN [err |-> consumed.err, namespace |-> EmptyDict]
       ELSE LET r == ApplyDefaults(declared, 1, consumed.namespace, consumed.seen)
            IN IF r.err # "" THEN [err |-> r.err, namespace |-> EmptyDict] ELSE r

\* ------------------------------------------------------- argparse_/parse.py

\* _make_parser's loop over the actions of one field, from the k-th on.
RECURSIVE AddActions(_, _, _)
AddActions(declared, actions, k) ==
    IF k > Len(actions) THEN [err |-> "", declared |-> declared]
    ELSE LET r == add_argument(declared, actions[k]._aliases, actions[k].kwargs)
         IN IF r.err # "" THEN r ELSE AddActions(r.declared, actions, k + 1)

\* _make_parser's loop over the fields, from the k-th on: an exception leaves
\* the arguments declared so far on the parser.  built lists what each call of
\* TypeRegistry.build_actions returned or raised.
RECURSIVE AddFields(_, _, _, _, _)
AddFields(declared, fields, k, GlobalRegistry, built) ==
    IF k > Len(fields) THEN [err |-> "", declared |-> declared, built |-> built]
    ELSE LET actions == TypeRegistry_build_actions(GlobalRegistry, GlobalRegistry, fields[k])
         IN IF actions.err # ""
            THEN [err |-> actions.err, declared |-> declared, built |-> Append(built, actions)]
            ELSE LET r == AddActions(declared, actions.actions, 1)
                 IN IF r.err # ""
                    THEN [err |-> r.err, declared |-> r.declared,
                          built |-> Append(built, actions)]
                    ELSE AddFields(r.declared, fields, k + 1, GlobalRegistry,
                                   Append(built, actions))

\* _make_parser that declares the arguments on a new parser whatever it is given.
make_parser_new(record_class, declared, GlobalRegistry) ==
    AddFields(<< >>, record_class.fields, 1, GlobalRegistry, << >>)

\* A _make_parser that takes back what it declared when it raises.
make_parser_atomic(record_class, declared, GlobalRegistry) ==
    LET made == AddFields(declared, record_class.fields, 1, GlobalRegistry, << >>)
    IN IF made.err # "" THEN [made EXCEPT !.declared = declared] ELSE made

\* _make_parser(record_class, parser): the arguments declared on the parser
\* (the supplied one, or a new one) when it returns or raises.
make_parser(record_class, declared, GlobalRegistry) ==
    AddFields(declared, record_class.fields, 1, GlobalRegistry, << >>)

\* What a call returns or raises.
Returned(val) == [err |-> "", val |-> val]
Failed(err) == [err |-> err, val |-> MISSING]

\* The field of the record class that has the name.
FieldNamed(record_class, name) ==
    record_class.fields[CHOOSE i \in 1..Len(record_class.fields) :
                          record_class.fields[i].name = name]

FieldNames(record_class) ==
    {record_class.fields[i].name : i \in 1..Len(record_class.fields)}

\* record_class.cls(**unpacked): the generated __init__ of the host class takes
\* its fields as keywords, fills an absent one from its default or default
\* factory, and raises TypeError for an unknown keyword or an absent field
\* without default.  An instance is [cls, kw], kw mapping each field to its
\* value.
RECURSIVE Construct(_, _)
Construct(record_class, unpacked) ==
    LET fields == record_class.fields
        arg(i) ==
            LET f == fields[i]
            IN IF f.name \in DOMAIN unpacked THEN Returned(unpacked[f.name])
               ELSE IF f.default_factory \in RecordClasses
               THEN Construct(wrap_class(f.default_factory), EmptyDict)
               ELSE IF default(f) # MISSING THEN Returned(default(f))
               ELSE Failed("TypeError: missing required argument")
        args == [i \in 1..Len(fields) |-> arg(i)]
    IN IF (DOMAIN unpacked) \ FieldNames(record_class) # {}
       THEN Failed("TypeError: unexpected keyword argument")
       ELSE IF \E i \in 1..Len(fields) : args[i].err # ""
       THEN Failed("TypeError: missing required argument")
       ELSE Returned([cls |-> record_class.cls,
                      kw |-> [name \in FieldNames(record_class) |->
                                args[CHOOSE i \in 1..Len(fields) : fields[i].name = name].val]])

\* The index of the first of the sorted keys that starts with field_name, 0 if
\* none: where the loop over list(args) takes one of its two branches.
RECURSIVE FirstWithPrefix(_, _, _)
FirstWithPrefix(keys, field_name, i) ==
    IF i > Len(keys) THEN 0
    ELSE IF StartsWith(keys[i], field_name) THEN i
    ELSE FirstWithPrefix(keys, field_name, i + 1)

\* A loop that pops one key at most.
FrontRunOne(keys, field_name, n) ==
    IF n < Len(keys) /\ StartsWith(keys[n + 1], field_name) THEN n + 1 ELSE n

\* How many keys the while loop pops from the left of deque(args): the run of
\* keys that start with field_name, from the first key on.
RECURSIVE FrontRun(_, _, _)
FrontRun(keys, field_name, n) ==
    IF n < Len(keys) /\ StartsWith(keys[n + 1], field_name)
    THEN FrontRun(keys, field_name, n + 1)
    ELSE n

\* sub_args after the while loop popped the first n keys: a later key
\* overwrites an earlier one with the same remainder.
SubArgs(keys, n, args, slice_index) ==
    [sk \in {SliceFrom(keys[i], slice_index) : i \in 1..n} |->
        args[keys[CHOOSE i \in 1..n :
                    /\ SliceFrom(keys[i], slice_index) = sk
                    /\ \A j \in (i + 1)..n : SliceFrom(keys[j], slice_index) # sk]]]

RECURSIVE build_record_instance_from_parsed_args(_, _)
RECURSIVE UnpackFields(_, _, _, _, _)

\* The loop of build_record_instance_from_parsed_args over the sorted fields,
\* from the k-th name on: unpacked when it ends, or the exception raised.
UnpackFields(record_class, names, k, args, unpacked) ==
    IF k > Len(names) THEN Returned(unpacked)
    ELSE LET field_name == names[k]
             field == FieldNamed(record_class, field_name)
             keys == SortedStrs(DOMAIN args)
             hit == FirstWithPrefix(keys, field_name, 1)
         IN IF hit = 0 THEN UnpackFields(record_class, names, k + 1, args, unpacked)
            ELSE IF keys[hit] = field_name
            THEN UnpackFields(record_class, names, k + 1,
                              [key \in (DOMAIN args) \ {field_name} |-> args[key]],
                              (field_name :> args[field_name]) @@ unpacked)
            ELSE LET slice_index == Len(field_name) + 1
                     n == FrontRun(keys, field_name, 0)
                     sub_args == SubArgs(keys, n, args, slice_index)
                     rest == [key \in (DOMAIN args) \ {keys[i] : i \in 1..n} |-> args[key]]
                 IN IF field.type.kind # "record" THEN Failed("NotARecordClass")
                    ELSE LET sub_value == build_record_instance_from_parsed_args(
                                              wrap_class(field.type.cls), sub_args)
                         IN IF sub_value.err # "" THEN sub_value
                            ELSE UnpackFields(record_class, names, k + 1, rest,
                                              (field_name :> sub_value.val) @@ unpacked)

\* build_record_instance_from_parsed_args(record_class, args)
build_record_instance_from_parsed_args(record_class, args) ==
    LET unpacked == UnpackFields(record_class, SortedStrs(FieldNames(record_class)), 1,
                                 args, EmptyDict)
    IN IF unpacked.err # "" THEN unpacked ELSE Construct(record_class, unpacked.val)

\* ----------------------------------- the steps of the reconstruction, in order

\* One step of build_record_instance_from_parsed_args: args.pop(key) for the
\* field ("pop"), the recursive call with sub_args for the field ("call"), or
\* record_class.cls(**unpacked) with the names of unpacked ("construct").  path
\* holds the names of the fields the recursion descended through, cls the class
\* of record_class.
Step(ev, path, cls, field_name, key, sub_args, names) ==
    [ev |-> ev, path |-> path, cls |-> cls, field |-> field_name, key |-> key,
     sub_args |-> sub_args, names |-> names]

RECURSIVE ReconstructSteps(_, _, _)
RECURSIVE UnpackSteps(_, _, _, _, _, _)

\* The steps of the loop over the sorted fields from the k-th name on; given
\* holds the names in unpacked so far.
UnpackSteps(record_class, names, k, args, given, path) ==
    IF k > Len(names)
    THEN << Step("construct", path, record_class.cls, << >>, << >>, EmptyDict, given) >>
    ELSE LET field_name == names[k]
             field == FieldNamed(record_class, field_name)
             keys == SortedStrs(DOMAIN args)
             hit == FirstWithPrefix(keys, field_name, 1)
         IN IF hit = 0
            THEN UnpackSteps(record_class, names, k + 1, args, given, path)
            ELSE IF keys[hit] = field_name
            THEN << Step("pop", path, record_class.cls, field_name, field_name, EmptyDict, {}) >>
                 \o UnpackSteps(record_class, names, k + 1,
                                [key \in (DOMAIN args) \ {field_name} |-> args[key]],
                                given \cup {field_name}, path)
            ELSE LET slice_index == Len(field_name) + 1
                     n == FrontRun(keys, field_name, 0)
                     sub_args == SubArgs(keys, n, args, slice_index)
                     rest == [key \in (DOMAIN args) \ {keys[i] : i \in 1..n} |-> args[key]]
                     pops == [i \in 1..n |->
                                Step("pop", path, record_class.cls, field_name, keys[i], EmptyDict, {})]
                 IN IF field.type.kind # "record" THEN pops
                    ELSE pops
                         \o << Step("call", path, record_class.cls, field_name, << >>, sub_args, {}) >>
                         \o ReconstructSteps(wrap_class(field.type.cls), sub_args,
                                             Append(path, field_name))
                         \o (IF build_record_instance_from_parsed_args(
                                    wrap_class(field.type.cls), sub_args).err # ""
                             THEN << >>
                             ELSE UnpackSteps(record_class, names, k + 1, rest,
                                              given \cup {field_name}, path))

\* The steps of build_record_instance_from_parsed_args(record_class, args), up
\* to its return or to the exception.
ReconstructSteps(record_class, args, path) ==
    UnpackSteps(record_class, SortedStrs(FieldNames(record_class)), 1, args, {}, path)

\* The caller's mapping after a call that pops from the mapping it was given.
CallerArgsInPlace(record_class, args) ==
    LET steps == ReconstructSteps(record_class, args, << >>)
        popped == { steps[i].key : i \in { j \in 1..Len(steps) :
                        steps[j].ev = "pop" /\ steps[j].path = << >> } }
    IN [key \in (DOMAIN args) \ popped |-> args[key]]

\* The caller's mapping after the call: the function works on
\* OrderedDict(sorted(args.items())), a copy.
CallerArgsAfter(record_class, args) == args

\* ------------------------------------------------------------- the schemas

\* Fields in one root record class.
MaxFields == 2

\* The fields a root record class is declared from:
\*   a: Room                    ab: int = 5            a_b: int
\*   a_b: Suite                 b: bool                b: bool = True
\*   b: bool = False (help)     c: FoodEnum            c: Level = Level.high
\*   d: Sequence[str]           d: Sequence[str] = factory(list), argparse_parse
\*   d: Sequence[str], converter                       e: Empty
\*   n: int, alias -n           s: Short               g: str = "x"
\*   h: int = factory(int)
\* A declared default is a value of the field's type.
RootFieldPool ==
    { Field(<<97>>, "record", "Room", MISSING, "", EmptyDict),
      Field(<<97, 98>>, "int", "int", V("int", "5"), "", EmptyDict),
      Field(<<97, 95, 98>>, "int", "int", MISSING, "", EmptyDict),
      Field(<<97, 95, 98>>, "record", "Suite", MISSING, "", EmptyDict),
      Field(<<98>>, "bool", "bool", MISSING, "", EmptyDict),
      Field(<<98>>, "bool", "bool", V("bool", "True"), "", EmptyDict),
      Field(<<98>>, "bool", "bool", V("bool", "False"), "", "help" :> "a switch"),
      Field(<<99>>, "enum", "FoodEnum", MISSING, "", EmptyDict),
      Field(<<99>>, "enum", "Level", V("Level", "high"), "", EmptyDict),
      Field(<<100>>, "generic", "Sequence[str]", MISSING, "", EmptyDict),
      Field(<<100>>, "generic", "Sequence[str]", MISSING, "list",
            "argparse_parse" :> "split_comma"),
      Field(<<100>>, "generic", "Sequence[str]", MISSING, "",
            "converter" :> "split_comma"),
      Field(<<101>>, "record", "Empty", MISSING, "", EmptyDict),
      Field(<<110>>, "int", "int", MISSING, "", "aliases" :> << <<45, 110>> >>),
      Field(<<115>>, "record", "Short", MISSING, "", EmptyDict),
      Field(<<103>>, "str", "str", V("str", "x"), "", EmptyDict),
      Field(<<104>>, "int", "int", MISSING, "int", EmptyDict) }

\* The declarations of n fields with distinct names, in declaration order.
RECURSIVE SchemasOfLen(_)
SchemasOfLen(n) ==
    IF n = 0 THEN { << >> }
    ELSE { Append(fs, f) : fs \in SchemasOfLen(n - 1),
                           f \in { g \in RootFieldPool : TRUE } } \
         { fs \in [1..n -> RootFieldPool] : \E i, j \in 1..n : i # j /\ fs[i].name = fs[j].name }

MaxArgsclassFields == 1

\* DatargsParams().parser: the parser parameters of a class that has no
\* __datargs_params__.
DatargsParams == EmptyDict

\* The parser parameters argsclass(description="doc") leaves on the class.
ArgsclassParams ==
    [key \in {"description", "formatter_class"} |->
        IF key = "description" THEN V("str", "doc")
        ELSE V("type", "ArgumentDefaultsHelpFormatter")]

\* The root record classes: class Args with up to MaxFields fields, as the
\* dataclass decorator leaves it, and with up to MaxArgsclassFields fields
\* decorated with argsclass as well.
Schemas ==
    { [cls |-> "Args", fields |-> fs, parser_params |-> DatargsParams] :
        fs \in UNION { SchemasOfLen(n) : n \in 0..MaxFields } }
    \cup
    { [cls |-> "Args", fields |-> fs, parser_params |-> ArgsclassParams] :
        fs \in UNION { SchemasOfLen(n) : n \in 0..MaxArgsclassFields } }

\* The fields build_actions is called with directly: one of each kind of type.
LookupFields ==
    { Field(<<97, 95, 98>>, "int", "int", MISSING, "", EmptyDict),
      Field(<<98>>, "bool", "bool", V("bool", "True"), "", EmptyDict),
      Field(<<99>>, "enum", "FoodEnum", MISSING, "", EmptyDict),
      Field(<<100>>, "generic", "Sequence[str]", MISSING, "", EmptyDict),
      Field(<<108>>, "literal", "Literal[r,b]", V("str", "r"), "", EmptyDict),
      Field(<<97>>, "record", "Room", MISSING, "", EmptyDict) }

\* ----------------------------------------------------------------- the state

VARIABLES
    _dispatch,      \* registry -> its _dispatch dict
    registered,     \* registry -> the registrations in force, oldest first
    call,           \* the last build_actions call and what it returned or raised
    pc,             \* how far the caller of make_parser / parse got
    record_class,   \* the root record class handed to make_parser / parse
    parser,         \* the parser: whether the host supplied it, its arguments
    argv,           \* the command line handed to parse
    namespace,      \* the flat mapping parse_args produced
    result,         \* what make_parser / parse returned or raised
    _implementors   \* RecordClass._implementors: the adapters, oldest first

vars == << _dispatch, registered, call, pc, record_class, parser, argv, namespace, result,
           _implementors >>

\* GlobalRegistry of dispatch/registry.py and a registry the host constructs.
Registries == {"GlobalRegistry", "registry"}

NoCall == [op |-> "none"]

\* parser=None: the host supplied no parser.
NoParser == [supplied |-> FALSE, declared |-> << >>, params |-> EmptyDict]

pipeline == << pc, record_class, parser, argv, namespace, result >>

\* _implementors after `import shogun.records` with attrs installed: the
\* package imports records/dataclass.py, then records/attrs.py.
ImportedAdapters == << "DataClass", "AttrClass" >>

\* TypeRegistry(): the _dispatch of a new registry.
EmptyRegistry == [p \in Priorities |-> << >>]

\* Both registries as constructed, before any dispatcher class is declared; no
\* parser is being built.
InitRegistry ==
    /\ _dispatch = [r \in Registries |-> EmptyRegistry]
    /\ registered = [r \in Registries |-> << >>]
    /\ call = NoCall
    /\ pc = "idle"
    /\ record_class = [cls |-> "Args", fields |-> << >>]
    /\ parser = NoParser
    /\ argv = << >>
    /\ namespace = EmptyDict
    /\ result = Returned(MISSING)
    /\ _implementors = ImportedAdapters

\* The registrations in force on all registries.
Registrations == Len(registered["GlobalRegistry"]) + Len(registered["registry"])

\* r.register(d)
Register(r, d) ==
    /\ pc = "idle"
    /\ Registrations < MaxRegs
    /\ _dispatch' = [_dispatch EXCEPT ![r] = register(@, d)]
    /\ registered' = [registered EXCEPT ![r] = Append(@, d)]
    /\ call' = NoCall
    /\ UNCHANGED << pipeline, _implementors >>

\* r.deregister(d)
Deregister(r, d) ==
    /\ pc = "idle"
    /\ _dispatch' = [_dispatch EXCEPT ![r] = deregister(@, d)]
    /\ registered' = [registered EXCEPT ![r] = ListRemove(@, d)]
    /\ call' = NoCall
    /\ UNCHANGED << pipeline, _implementors >>

\* r.clear()
Clear(r) ==
    /\ pc = "idle"
    /\ _dispatch' = [_dispatch EXCEPT ![r] = clear(@)]
    /\ registered' = [registered EXCEPT ![r] = << >>]
    /\ call' = NoCall
    /\ UNCHANGED << pipeline, _implementors >>

\* r.build_actions(field)
BuildActions(r, field) ==
    /\ pc = "idle"
    /\ call' = [op |-> "build_actions", reg |-> r, field |-> field,
                result |-> TypeRegistry_build_actions(_dispatch[r],
                                                      _dispatch["GlobalRegistry"], field)]
    /\ UNCHANGED << _dispatch, registered, pipeline, _implementors >>

NextRegistry ==
    \/ \E r \in Registries, d \in Dispatchers : Register(r, d)
    \/ \E r \in Registries, d \in Dispatchers : Deregister(r, d)
    \/ \E r \in Registries : Clear(r)
    \/ \E r \in Registries, field \in LookupFields : BuildActions(r, field)

SpecRegistry == InitRegistry /\ [][NextRegistry]_vars

\* ------------------------------------------- the registry calls, one at a time

\* What dispatchers() yields on each registry.
Yielded == [r \in Registries |-> dispatchers(_dispatch[r])]

\* Both registries as constructed; every call from here on is recorded with
\* what dispatchers() yielded on each registry before it.
InitCalls ==
    /\ _dispatch = [r \in Registries |-> EmptyRegistry]
    /\ registered = [r \in Registries |-> << >>]
    /\ call = NoCall
    /\ pc = "calls"
    /\ record_class = [cls |-> "Args", fields |-> << >>]
    /\ parser = NoParser
    /\ argv = << >>
    /\ namespace = EmptyDict
    /\ result = Returned(MISSING)
    /\ _implementors = ImportedAdapters

\* registry = TypeRegistry(): the host constructs its registry anew.
NewRegistry ==
    /\ pc = "calls"
    /\ _dispatch' = [_dispatch EXCEPT !["registry"] =
                        default_factory(_dispatch["GlobalRegistry"])]
    /\ registered' = [registered EXCEPT !["registry"] = << >>]
    /\ call' = [op |-> "TypeRegistry", reg |-> "registry", before |-> Yielded]
    /\ UNCHANGED << pipeline, _implementors >>

\* r.register(d)
RegisterCall(r, d) ==
    /\ pc = "calls"
    /\ Registrations < MaxRegs
    /\ _dispatch' = [_dispatch EXCEPT ![r] = register(@, d)]
    /\ registered' = [registered EXCEPT ![r] = Append(@, d)]
    /\ call' = [op |-> "register", reg |-> r, dispatcher_type |-> d, before |-> Yielded]
    /\ UNCHANGED << pipeline, _implementors >>

\* r.deregister(d)
DeregisterCall(r, d) ==
    /\ pc = "calls"
    /\ _dispatch' = [_dispatch EXCEPT ![r] = deregister(@, d)]
    /\ registered' = [registered EXCEPT ![r] = ListRemove(@, d)]
    /\ call' = [op |-> "deregister", reg |-> r, dispatcher_type |-> d, before |-> Yielded]
    /\ UNCHANGED << pipeline, _implementors >>

\* r.clear()
ClearCall(r) ==
    /\ pc = "calls"
    /\ _dispatch' = [_dispatch EXCEPT ![r] = clear(@)]
    /\ registered' = [registered EXCEPT ![r] = << >>]
    /\ call' = [op |-> "clear", reg |-> r, before |-> Yielded]
    /\ UNCHANGED << pipeline, _implementors >>

NextCalls ==
    \/ NewRegistry
    \/ \E r \in Registries, d \in Dispatchers : RegisterCall(r, d)
    \/ \E r \in Registries, d \in Dispatchers : DeregisterCall(r, d)
    \/ \E r \in Registries : ClearCall(r)

SpecCalls == InitCalls /\ [][NextCalls]_vars

\* ------------------------------------------------------ parsing a command line

\* _dispatch after the dispatcher classes of ds were declared in that order.
RECURSIVE RegisterAll(_, _)
RegisterAll(self, ds) ==
    IF ds = << >> THEN self ELSE RegisterAll(register(self, Head(ds)), Tail(ds))

\* The orders of registration on the global registry when a parser is built.
\* The first is the order in which the modules of dispatch/concrete declare
\* their classes (enum_.py, literal.py and generic_container.py import
\* default.py before they declare their own class); the second is the order
\* after the host deregistered and registered the default rule again.
ImportOrders ==
    { << "DispatcherIsAttrs", "DispatcherBool", "DispatcherDefault", "DispatcherEnum",
         "DispatcherGenericContainer", "DispatcherLiteral" >>,
      << "DispatcherIsAttrs", "DispatcherBool", "DispatcherEnum",
         "DispatcherGenericContainer", "DispatcherLiteral", "DispatcherDefault" >> }

\* The parameters the host constructed its parser with.
HostParams ==
    [key \in {"description", "prog"} |->
        IF key = "description" THEN V("str", "Program documentation")
        ELSE V("str", "My prog")]

\* ArgumentParser(**parser_params): a parser that declares nothing yet.
ArgumentParser(parser_params) ==
    [supplied |-> FALSE, declared |-> << >>, params |-> parser_params]

\* The arguments the parser of the host declares already: --zz.
HostParser ==
    << [option_strings |-> << <<45, 45, 122, 122>> >>, dest |-> <<122, 122>>,
        action |-> "store", kwargs |-> EmptyDict] >>

\* The tokens a command line gives to a declared argument: a numeral for an
\* int, member names and another word for an Enum, a word for the others.
TokensFor(a) ==
    LET type == Get(a.kwargs, "type", "str")
    IN CASE a.action # "store" -> {""}
         [] type = "int" -> {"3"}
         [] type \in {"FoodEnum", "enum_type_func[FoodEnum]"} -> {"kimchi", "poutine"}
         [] type \in {"Level", "enum_type_func[Level]"} -> {"low", "high"}
         [] OTHER -> {"y"}

\* The command lines for the declared arguments from the i-th on: each argument
\* is left out or given once, under one of its option strings.
RECURSIVE ArgvChoices(_, _)
ArgvChoices(declared, i) ==
    IF i > Len(declared) THEN { << >> }
    ELSE LET given == { << [flag |-> declared[i].option_strings[j], token |-> t] >> :
                          j \in 1..Len(declared[i].option_strings),
                          t \in TokensFor(declared[i]) }
         IN { h \o t : h \in given \cup { << >> }, t \in ArgvChoices(declared, i + 1) }

\* The host has declared a record class and is about to call make_parser or
\* parse with it, with its own parser or without one.
InitParse ==
    /\ \E ds \in ImportOrders :
         /\ _dispatch = [r \in Registries |->
                           IF r = "GlobalRegistry" THEN RegisterAll(EmptyRegistry, ds)
                           ELSE EmptyRegistry]
         /\ registered = [r \in Registries |->
                            IF r = "GlobalRegistry" THEN ds ELSE << >>]
    /\ call = NoCall
    /\ pc = "start"
    /\ record_class \in Schemas
    /\ parser \in { NoParser,
                     [supplied |-> TRUE, declared |-> HostParser, params |-> HostParams] }
    /\ argv = << >>
    /\ namespace = EmptyDict
    /\ result = Returned(MISSING)
    /\ _implementors = ImportedAdapters

\* make_parser(cls, parser)
MakeParser ==
    /\ pc = "start"
    /\ LET base == IF parser = NoParser THEN ArgumentParser(record_class.parser_params)
                   ELSE parser
           made == make_parser(record_class, base.declared, _dispatch["GlobalRegistry"])
       IN /\ parser' = [base EXCEPT !.declared = made.declared]
          /\ call' = [op |-> "make_parser", built |-> made.built]
          /\ result' = IF made.err # "" THEN Failed(made.err) ELSE Returned(MISSING)
          /\ pc' = IF made.err # "" THEN "make_failed" ELSE "made"
    /\ UNCHANGED << _dispatch, registered, record_class, argv, namespace, _implementors >>

\* parse(cls, args, parser) with one of the command lines for the arguments
\* that make_parser declares: make_parser, parse_args and the reconstruction
\* of the instance, up to the first of them that raises.
Parse ==
    /\ pc = "start"
    /\ LET base == IF parser = NoParser THEN ArgumentParser(record_class.parser_params)
                   ELSE parser
           made == make_parser(record_class, base.declared, _dispatch["GlobalRegistry"])
       IN /\ parser' = [base EXCEPT !.declared = made.declared]
          /\ call' = [op |-> "make_parser", built |-> made.built]
          /\ \E args \in ArgvChoices(made.declared, 1) :
               LET parsed == parse_args(made.declared, args)
                   instance == build_record_instance_from_parsed_args(record_class,
                                                                      parsed.namespace)
               IN /\ argv' = args
                  /\ IF made.err # ""
                     THEN /\ namespace' = EmptyDict
                          /\ result' = Failed(made.err)
                          /\ pc' = "make_failed"
                     ELSE IF parsed.err # ""
                     THEN /\ namespace' = EmptyDict
                          /\ result' = Failed(parsed.err)
                          /\ pc' = "parse_failed"
                     ELSE /\ namespace' = parsed.namespace
                          /\ result' = instance
                          /\ pc' = IF instance.err # "" THEN "reconstruct_failed"
                                   ELSE "parsed"
    /\ UNCHANGED << _dispatch, registered, record_class, _implementors >>

NextParse ==
    \/ MakeParser
    \/ Parse

SpecParse == InitParse /\ [][NextParse]_vars

\* -------------------------------------------- paths, flags and flattened keys

\* The names of a path joined by the separator.
RECURSIVE Join(_, _)
Join(path, sep) ==
    IF Len(path) = 1 THEN path[1] ELSE path[1] \o << sep >> \o Join(Tail(path), sep)

\* The key of the flat mapping for the leaf at the path.
FlatKey(path) == Join(path, 95)

\* The canonical flag of the leaf at the path.
CanonicalFlag(path) == <<45, 45>> \o StrReplace(Join(path, 45), 95, 45)

\* The paths of the leaf fields below the fields, in declaration order; chain
\* holds the names of the ancestors.
RECURSIVE LeafPaths(_, _)
LeafPaths(fields, chain) ==
    IF fields = << >> THEN << >>
    ELSE LET f == Head(fields)
         IN (IF f.type.kind = "record"
             THEN LeafPaths(ClassFields(f.type.cls), Append(chain, f.name))
             ELSE << Append(chain, f.name) >>)
            \o LeafPaths(Tail(fields), chain)

\* At every nesting level no sibling's name is a strict prefix of another's.
RECURSIVE NoSiblingPrefix(_)
NoSiblingPrefix(fields) ==
    /\ \A i, j \in 1..Len(fields) : i # j => ~ StartsWith(fields[j].name, fields[i].name)
    /\ \A i \in 1..Len(fields) :
         fields[i].type.kind = "record" => NoSiblingPrefix(ClassFields(fields[i].type.cls))

\* Every nested record field without default has a leaf field beneath it.
RECURSIVE RequiredNestedHaveLeaves(_)
RequiredNestedHaveLeaves(fields) ==
    \A i \in 1..Len(fields) :
        fields[i].type.kind = "record" =>
            /\ (fields[i].default = MISSING /\ fields[i].default_factory = "")
                 => LeafPaths(ClassFields(fields[i].type.cls), << >>) # << >>
            /\ RequiredNestedHaveLeaves(ClassFields(fields[i].type.cls))

\* The option strings of the leaf at the path: its canonical flag, and for a
\* field of the root its aliases.
FlagsOf(f, path) ==
    {CanonicalFlag(path)} \cup
    (IF Len(path) = 1 /\ "aliases" \in DOMAIN f.metadata
     THEN {f.metadata["aliases"][k] : k \in 1..Len(f.metadata["aliases"])} ELSE {})

\* Whether the command line gives the leaf, and the token it gives.
Supplied(f, path, av) == \E k \in 1..Len(av) : av[k].flag \in FlagsOf(f, path)
TokenOf(f, path, av) == av[CHOOSE k \in 1..Len(av) : av[k].flag \in FlagsOf(f, path)].token

\* The value the round trip promises for a leaf: the supplied value, converted
\* to the field's type (a toggle turns the default over), else the default
\* (false for a bool without default).
ExpectedLeaf(f, path, av) ==
    IF Supplied(f, path, av)
    THEN CASE f.type.kind = "bool" ->
                V("bool", IF f.default = V("bool", "True") THEN "False" ELSE "True")
           [] f.type.kind = "enum" -> V(f.type.cls, TokenOf(f, path, av))
           [] OTHER -> V(f.type.kind, TokenOf(f, path, av))
    ELSE IF f.type.kind = "bool" /\ f.default = MISSING THEN V("bool", "False")
    ELSE IF f.default_factory = "int" THEN V("int", "0")
    ELSE f.default

\* The instance the round trip promises for the command line.
RECURSIVE ExpectedInstance(_, _, _, _)
ExpectedInstance(cls, fields, chain, av) ==
    [cls |-> cls,
     kw |-> [name \in {fields[i].name : i \in 1..Len(fields)} |->
               LET f == fields[CHOOSE i \in 1..Len(fields) : fields[i].name = name]
               IN IF f.type.kind = "record"
                  THEN ExpectedInstance(f.type.cls, ClassFields(f.type.cls),
                                        Append(chain, name), av)
                  ELSE ExpectedLeaf(f, Append(chain, name), av)]]

\* The instance whose leaves hold what the flat mapping holds under their keys.
RECURSIVE InstanceFrom(_, _, _, _)
InstanceFrom(cls, fields, chain, flat) ==
    [cls |-> cls,
     kw |-> [name \in {fields[i].name : i \in 1..Len(fields)} |->
               LET f == fields[CHOOSE i \in 1..Len(fields) : fields[i].name = name]
               IN IF f.type.kind = "record"
                  THEN InstanceFrom(f.type.cls, ClassFields(f.type.cls),
                                    Append(chain, name), flat)
                  ELSE flat[FlatKey(Append(chain, name))]]]

\* parse_args accepted the command line.
ArgvValid == pc \in {"parsed", "reconstruct_failed"}

\* ------------------------------------------------------------ the round trip

C2_NestedFlagNames ==
    call.op = "make_parser" =>
        \A k \in 1..Len(call.built) :
            (record_class.fields[k].type.kind = "record" /\ call.built[k].err = "") =>
                LET paths == LeafPaths(<< record_class.fields[k] >>, << >>)
                IN [i \in 1..Len(call.built[k].actions) |->
                        call.built[k].actions[i]._aliases[1]]
                     = [i \in 1..Len(paths) |-> CanonicalFlag(paths[i])]

\* make_parser of  a_b: Suite : --a-b-f-x then --a-b-fx.
C2_Witness ==
    /\ pc = "made"
    /\ ~ parser.supplied
    /\ Len(record_class.fields) = 1
    /\ record_class.fields[1].type.cls = "Suite"
    /\ [i \in 1..Len(parser.declared) |-> parser.declared[i].option_strings]
         = << << <<45, 45, 97, 45, 98, 45, 102, 45, 120>> >>,
              << <<45, 45, 97, 45, 98, 45, 102, 120>> >> >>

\* C3: for every schema without a sibling whose name is a strict prefix of
\* another's, and every flat mapping whose keys are the flattened names of the
\* leaves, the reconstruction returns the instance whose leaves hold the values
\* under their keys.
C3_Lossless ==
    (/\ ArgvValid
     /\ NoSiblingPrefix(record_class.fields)
     /\ DOMAIN namespace = {FlatKey(LeafPaths(record_class.fields, << >>)[i]) :
                              i \in 1..Len(LeafPaths(record_class.fields, << >>))}) =>
        result = Returned(InstanceFrom("Args", record_class.fields, << >>, namespace))

\* ------------------------------------------------------------ the rules

\* The rule of the global registry that takes the field, "" if none does.
RuleFor(field) ==
    LET ds == dispatchers(_dispatch["GlobalRegistry"])
        i == FirstMatch(ds, field.type, 1)
    IN IF i = 0 THEN "" ELSE ds[i]

\* The fields of the root class for which make_parser called build_actions and
\* the rule returned.
BuiltFields ==
    IF call.op # "make_parser" THEN {}
    ELSE { k \in 1..Len(call.built) : call.built[k].err = "" }

\* C7: a bool field gets one toggle without type converter; with the default
\* true it is store_false (the flag parses to false, its absence to true),
\* with the default false or no default it is store_true (the flag parses to
\* true, its absence to false).
C7_BoolToggle ==
    \A k \in BuiltFields :
        LET f == record_class.fields[k]
            actions == call.built[k].actions
            default_true == f.default = V("bool", "True")
        IN RuleFor(f) = "DispatcherBool" =>
            /\ Len(actions) = 1
            /\ "type" \notin DOMAIN actions[1].kwargs
            /\ actions[1].kwargs["action"] = (IF default_true THEN "store_false" ELSE "store_true")
            /\ ArgvValid =>
                 namespace[f.name] =
                     V("bool", IF Supplied(f, << f.name >>, argv) = default_true
                               THEN "False" ELSE "True")

\* parse of  b: bool = True  with  --b : the switch is false.
C7_Witness ==
    /\ pc = "parsed"
    /\ Len(record_class.fields) = 1
    /\ record_class.fields[1].type.kind = "bool"
    /\ record_class.fields[1].default = V("bool", "True")
    /\ Len(argv) = 1
    /\ namespace[<<98>>] = V("bool", "False")
    /\ result.val.kw[<<98>>] = V("bool", "False")

\* The root class has one field, an Enum field that the enum rule takes, and
\* the command line gives it.
EnumFieldGiven ==
    /\ pc \in {"parse_failed", "parsed", "reconstruct_failed"}
    /\ Len(record_class.fields) = 1
    /\ record_class.fields[1].type.kind = "enum"
    /\ RuleFor(record_class.fields[1]) = "DispatcherEnum"
    /\ ~ parser.supplied
    /\ Len(argv) = 1
    /\ Supplied(record_class.fields[1], << record_class.fields[1].name >>, argv)

\* C8: for every Enum field and every member, the converter turns the member's
\* name into the member; every other string is a parse error with the invalid
\* choice.
C8_EnumConverter ==
    EnumFieldGiven =>
        LET cls == record_class.fields[1].type.cls
            token == argv[1].token
        IN IF \E m \in 1..Len(EnumMembers(cls)) : EnumMembers(cls)[m] = token
           THEN /\ pc = "parsed"
                /\ result.val.kw[record_class.fields[1].name] = V(cls, token)
           ELSE /\ pc = "parse_failed"
                /\ result.err = "error: invalid choice"

\* The metadata key the generic-container rule reads its converter from; the
\* key converter is removed by common_kwargs and read by no rule.
HasConverter(f) == Get(f.metadata, "argparse_parse", "None") # "None"

C10_DefaultRule ==
    \A k \in BuiltFields :
        LET f == record_class.fields[k]
            actions == call.built[k].actions
            required == f.default = MISSING /\ f.default_factory = ""
            dflt == IF f.default_factory = "int" THEN V("int", "0") ELSE f.default
        IN RuleFor(f) = "DispatcherDefault" =>
            /\ Len(actions) = 1
            /\ actions[1].kwargs["required"] = required
            /\ actions[1].kwargs["default"] = dflt
            /\ (required /\ ~ Supplied(f, << f.name >>, argv))
                 => pc \in {"made", "make_failed", "parse_failed"}
            /\ (~ required /\ ~ Supplied(f, << f.name >>, argv) /\ ArgvValid)
                 => namespace[f.name] = dflt

\* parse of  a_b: int; h: int = factory(int)  with  --a-b 3 : h is 0.
C10_Witness ==
    /\ pc = "parsed"
    /\ Len(record_class.fields) = 2
    /\ record_class.fields[1].default = MISSING
    /\ record_class.fields[1].type.kind = "int"
    /\ record_class.fields[2].default_factory = "int"
    /\ Len(argv) = 1
    /\ result.val.kw[<<97, 95, 98>>] = V("int", "3")
    /\ result.val.kw[<<104>>] = V("int", "0")

\* ------------------------------------------------------ the registry's order

\* The dispatchers of ds that have priority p, in the order of ds.
OfPriority(ds, p) == SelectSeq(ds, LAMBDA d : priority(d) = p)

\* C4: after any sequence of register, deregister and clear calls on a registry,
\* dispatchers() yields the registered rules in non-increasing priority order,
\* and the rules of one priority in the order in which they were registered.
C4_DispatchersOrdered ==
    \A r \in Registries :
        LET ds == dispatchers(_dispatch[r])
        IN /\ \A i, j \in 1..Len(ds) : i < j => priority(ds[i]) >= priority(ds[j])
           /\ \A p \in Priorities : OfPriority(ds, p) = OfPriority(registered[r], p)

\* A registry on which the default rule, the enum rule and the nested-record
\* rule were registered in that order: the last registered rule is yielded
\* first, the two rules of priority 1 in the order of their registration.
C4_Witness ==
    /\ registered["registry"] = << "DispatcherDefault", "DispatcherEnum", "DispatcherIsAttrs" >>
    /\ dispatchers(_dispatch["registry"])
         = << "DispatcherIsAttrs", "DispatcherDefault", "DispatcherEnum" >>

\* C5: in every state of the default registry in which the default rule is
\* registered, the default rule is the last rule dispatchers() yields.
C5_DefaultIsLast ==
    LET ds == dispatchers(_dispatch["GlobalRegistry"])
    IN (\E i \in 1..Len(ds) : ds[i] = "DispatcherDefault") => ds[Len(ds)] = "DispatcherDefault"

\* C6: build_actions(field) returns what the first rule, in dispatchers() order,
\* that accepts the field's type builds (or raises what it raises), and raises
\* the no-match error when no registered rule accepts it.
C6_FirstMatchWins ==
    call.op = "build_actions" =>
        LET ds == dispatchers(_dispatch[call.reg])
            matches == { i \in 1..Len(ds) : is_type(ds[i], call.field.type) }
        IN IF matches = {}
           THEN call.result = Raised("ValueError: Unexpected type for field")
           ELSE LET first == CHOOSE i \in matches : \A j \in matches : i <= j
                IN call.result = dispatcher_build_actions(ds[first],
                                     _dispatch["GlobalRegistry"], call.field)

\* A call for a bool field on a registry where the bool rule precedes the default
\* rule under one priority: both accept the type, and they build differently.
C6_Witness ==
    /\ call.op = "build_actions"
    /\ call.field.type.kind = "bool"
    /\ dispatchers(_dispatch[call.reg]) = << "DispatcherBool", "DispatcherDefault" >>
    /\ call.result = Built(<< DispatcherBool_build_action(call.field) >>)
    /\ call.result # Built(<< DispatcherDefault_build_action(call.field, EmptyDict) >>)

\* ------------------------------------------------ what the registry calls change

\* How often x occurs in the list.
Count(list, x) == Cardinality({ i \in 1..Len(list) : list[i] = x })

\* What dispatchers() yields now on the registry of the last call, and what it
\* yielded before the call.
YieldedAfter == Yielded[call.reg]
YieldedBefore == call.before[call.reg]

\* C13: deregister of a rule that the registry does not hold raises nothing
\* and leaves the registry as it was: dispatchers() yields the same rules in
\* the same order as before the call.
C13_DeregisterAbsent ==
    (call.op = "deregister" /\ Count(YieldedBefore, call.dispatcher_type) = 0) =>
        YieldedAfter = YieldedBefore

\* A rule was deregistered from a registry that holds other rules, one of
\* them of the same priority, but not that rule.
C13_Witness ==
    /\ call.op = "deregister"
    /\ Count(YieldedBefore, call.dispatcher_type) = 0
    /\ Len(YieldedBefore) >= 2
    /\ \E i \in 1..Len(YieldedBefore) :
          priority(YieldedBefore[i]) = priority(call.dispatcher_type)
    /\ YieldedAfter = YieldedBefore

\* C14: on every registry state register adds exactly one entry to what
\* dispatchers() yields, the rule itself, also when the registry holds the rule
\* already, and clear leaves dispatchers() empty whatever the registry held,
\* duplicates included.
C14_RegisterAddsOneClearEmpties ==
    /\ call.op = "register" =>
          /\ Len(YieldedAfter) = Len(YieldedBefore) + 1
          /\ \A d \in Dispatchers :
                Count(YieldedAfter, d) = Count(YieldedBefore, d)
                                         + (IF d = call.dispatcher_type THEN 1 ELSE 0)
    /\ call.op = "clear" => YieldedAfter = << >>

\* A rule was registered on a registry that held it already, and is yielded
\* twice now.
C14_Witness ==
    /\ call.op = "register"
    /\ Count(YieldedBefore, call.dispatcher_type) = 1
    /\ Count(YieldedAfter, call.dispatcher_type) = 2
    /\ Len(YieldedAfter) = 3

\* C15: the registries are isolated: register, deregister and clear on one
\* registry change nothing of what dispatchers() yields on the other, the
\* global registry included, and a newly constructed registry yields no rule
\* even when the global registry holds some.
C15_RegistriesIsolated ==
    /\ call.op \in {"register", "deregister", "clear", "TypeRegistry"} =>
          \A r \in Registries \ {call.reg} : Yielded[r] = call.before[r]
    /\ call.op = "TypeRegistry" => YieldedAfter = << >>

\* The host constructed a registry while the global registry held rules.
C15_Witness ==
    /\ call.op = "TypeRegistry"
    /\ Len(Yielded["GlobalRegistry"]) >= 2
    /\ Yielded["registry"] = << >>

\* C16: build_actions on the registry the host constructed, for a field of a
\* nested record class, resolves the fields of the nested class with the rules
\* of that registry only: the run returns what the run with the same registry
\* and an empty global registry returns.
C16_NoGlobalCoupling ==
    (call.op = "build_actions" /\ call.reg = "registry"
                               /\ call.field.type.kind = "record") =>
        call.result = TypeRegistry_build_actions(_dispatch["registry"], EmptyRegistry,
                                                 call.field)

\* C26: deregister undoes register: when register(rule) is immediately followed
\* by deregister(rule) on the same registry, dispatchers() yields afterwards the
\* same rules in the same order as before the register, also when the rule was
\* registered already next to other rules of its priority.
C26_DeregisterUndoesRegister ==
    [][ ( /\ call.op = "register"
          /\ call'.op = "deregister"
          /\ call'.reg = call.reg
          /\ call'.dispatcher_type = call.dispatcher_type )
        => dispatchers(_dispatch'[call.reg]) = call.before[call.reg] ]_vars

\* ------------------------------------------------------ the parser make_parser returns

\* make_parser returned: alone, or as the first step of parse.
MakeParserReturned == pc \in {"made", "parse_failed", "reconstruct_failed", "parsed"}

\* C12: make_parser with a supplied parser returns that parser, with the
\* arguments it declared before still declared and the schema's flags declared
\* after them; without a parser it returns a new parser constructed from the
\* schema's parser parameters; either way the schema's flags are declared field
\* by field, in the order the schema declares its fields.
C12_SuppliedParserAugmented ==
    MakeParserReturned =>
        LET before == IF parser.supplied THEN HostParser ELSE << >>
            paths == LeafPaths(record_class.fields, << >>)
        IN /\ parser.params = IF parser.supplied THEN HostParams
                               ELSE record_class.parser_params
           /\ Len(parser.declared) = Len(before) + Len(paths)
           /\ \A i \in 1..Len(before) : parser.declared[i] = before[i]
           /\ \A i \in 1..Len(paths) :
                 parser.declared[Len(before) + i].option_strings[1] = CanonicalFlag(paths[i])

\* make_parser returned the host's parser for a schema of two fields, the
\* second a nested record: --zz, then the first field's flag, then the nested
\* fields' flags.
C12_Witness ==
    /\ pc = "made"
    /\ parser.supplied
    /\ Len(record_class.fields) = 2
    /\ record_class.fields[1].type.kind # "record"
    /\ record_class.fields[2].type.kind = "record"
    /\ Len(parser.declared) >= 4
    /\ parser.declared[1] = HostParser[1]
    /\ parser.declared[2].option_strings[1]
         = CanonicalFlag(<< record_class.fields[1].name >>)

\* C20: build_actions returns at least one FlagSpec for every field that some
\* rule accepts, a nested record whose class declares no fields included, and
\* the aliases of every FlagSpec are not empty: the canonical flag of the
\* field name first, then the declared aliases in the order of declaration.
C20_NonEmptyFlagSpecs ==
    call.op = "make_parser" =>
        \A k \in BuiltFields :
            LET actions == call.built[k].actions
                field == record_class.fields[k]
            IN /\ Len(actions) >= 1
               /\ \A i \in 1..Len(actions) :
                     /\ Len(actions[i]._aliases) >= 1
                     /\ field.type.kind # "record" =>
                           actions[i]._aliases
                             = << CanonicalFlag(<< field.name >>) >>
                               \o Get(field.metadata, "aliases", << >>)

\* The construction options of the parsing primitive.
ParserOptions ==
    {"type", "default", "required", "choices", "action", "metavar", "help", "nargs", "const"}

\* The metadata keys the rules know.
RecognizedKeys ==
    {"aliases", "help", "metavar", "nargs", "choices", "const", "converter", "argparse_parse"}

\* C21: for a field whose metadata holds recognized keys only, the options of
\* every FlagSpec built for it are construction options of the parsing
\* primitive: neither the aliases nor the converter or custom parse function
\* of the metadata is passed through as an option.
C21_OnlyParserOptions ==
    call.op = "make_parser" =>
        \A k \in BuiltFields :
            DOMAIN record_class.fields[k].metadata \subseteq RecognizedKeys =>
                \A i \in 1..Len(call.built[k].actions) :
                    DOMAIN call.built[k].actions[i].kwargs \subseteq ParserOptions

\* C22: a flat key that begins with the characters of a nested field's name
\* but not with the name and the separator belongs to a sibling: it is not
\* collected into the sub-mapping of the nested field, and the sibling gets
\* the value of its key.
C22_SeparatorInPrefixTest ==
    ArgvValid =>
        \A i, j \in 1..Len(record_class.fields) :
            LET nested == record_class.fields[i]
                sibling == record_class.fields[j]
            IN ( /\ nested.type.kind = "record"
                 /\ sibling.type.kind # "record"
                 /\ StartsWith(sibling.name, nested.name)
                 /\ ~ StartsWith(sibling.name, nested.name \o <<95>>) ) =>
                   /\ result.err = ""
                   /\ result.val.kw[sibling.name] = namespace[sibling.name]

\* C24: for every nested record field the rule rewrites every alias of every
\* FlagSpec of the nested schema to start with "--", the hyphenated name of the
\* outer field and a hyphen, and never fails with the AssertionError of
\* add_alias_prefix, whatever aliases a sub-field declares.
C24_AliasPrefixNeverFails ==
    call.op = "make_parser" =>
        \A k \in 1..Len(call.built) :
            record_class.fields[k].type.kind = "record" =>
                /\ call.built[k].err # "AssertionError"
                /\ \A i \in 1..Len(call.built[k].actions) :
                     \A j \in 1..Len(call.built[k].actions[i]._aliases) :
                        StartsWith(call.built[k].actions[i]._aliases[j],
                                   <<45, 45>> \o StrReplace(record_class.fields[k].name, 95, 45)
                                   \o <<45>>)

\* ------------------------------------------- reconstruction of a flat mapping

\* The fields of the root record classes whose flat mappings are reconstructed:
\*   a: Room     ab: int = 5     a_b: int     a_b: Suite     e: Empty
\*   g: str = "x"
ReconstructFieldPool ==
    { f \in RootFieldPool :
        /\ f.name \in { <<97>>, <<97, 98>>, <<97, 95, 98>>, <<101>>, <<103>> }
        /\ f.type.kind \in {"record", "int", "str"} }

\* The keys of arguments a parser of the host declares besides those of the
\* record class: A and zz.
ForeignKeys == { <<65>>, <<122, 122>> }

\* vars(parse_args(...)) for a command line that gives every leaf below the
\* fields: the key of each leaf with the converted token.
RECURSIVE FlatMapping(_, _)
FlatMapping(fields, chain) ==
    IF fields = << >> THEN EmptyDict
    ELSE LET f == Head(fields)
         IN (IF f.type.kind = "record"
             THEN FlatMapping(ClassFields(f.type.cls), Append(chain, f.name))
             ELSE FlatKey(Append(chain, f.name)) :>
                    V(f.type.kind, IF f.type.kind = "int" THEN "3" ELSE "y"))
            @@ FlatMapping(Tail(fields), chain)

\* The host holds the flat mapping a parser produced for a record class and is
\* about to call build_record_instance_from_parsed_args with it.
InitReconstruct ==
    /\ \E ds \in ImportOrders :
         /\ _dispatch = [r \in Registries |->
                           IF r = "GlobalRegistry" THEN RegisterAll(EmptyRegistry, ds)
                           ELSE EmptyRegistry]
         /\ registered = [r \in Registries |->
                            IF r = "GlobalRegistry" THEN ds ELSE << >>]
    /\ call = NoCall
    /\ pc = "reconstruct"
    /\ \E n \in 0..MaxFields :
         \E fs \in SchemasOfLen(n) \cap [1..n -> ReconstructFieldPool] :
           \E foreign \in SUBSET ForeignKeys :
             /\ record_class = [cls |-> "Args", fields |-> fs,
                                parser_params |-> DatargsParams]
             /\ namespace = [key \in foreign |-> V("str", "y")] @@ FlatMapping(fs, << >>)
    /\ parser = NoParser
    /\ argv = << >>
    /\ result = Returned(MISSING)
    /\ _implementors = ImportedAdapters

\* build_record_instance_from_parsed_args(record_class, args) with the flat
\* mapping of the host.
Reconstruct ==
    /\ pc = "reconstruct"
    /\ call' = [op |-> "reconstruct", args |-> namespace,
                steps |-> ReconstructSteps(record_class, namespace, << >>)]
    /\ result' = build_record_instance_from_parsed_args(record_class, namespace)
    /\ namespace' = CallerArgsAfter(record_class, namespace)
    /\ pc' = "reconstructed"
    /\ UNCHANGED << _dispatch, registered, record_class, parser, argv, _implementors >>

NextReconstruct == Reconstruct

SpecReconstruct == InitReconstruct /\ [][NextReconstruct]_vars

\* The steps of the last reconstruction of the given kind.
StepsOf(ev) ==
    { i \in 1..Len(call.steps) : call.steps[i].ev = ev }

\* The mapping of the level a step works on: the flat mapping of the caller at
\* the root, else the sub-mapping the recursive call was given.
LevelArgs(i) ==
    IF call.steps[i].path = << >> THEN call.args
    ELSE call.steps[CHOOSE j \in StepsOf("call") :
                      /\ j < i
                      /\ Append(call.steps[j].path, call.steps[j].field) = call.steps[i].path
                   ].sub_args

\* The keys of its level that other fields consumed before the step.
ConsumedBefore(i) ==
    { call.steps[j].key : j \in { k \in StepsOf("pop") :
        /\ k < i
        /\ call.steps[k].path = call.steps[i].path
        /\ call.steps[k].field # call.steps[i].field } }

\* The remaining keys of its level that share the prefix of the field of step i.
SharingPrefix(i) ==
    { key \in (DOMAIN LevelArgs(i)) \ ConsumedBefore(i) :
        StartsWith(key, call.steps[i].field \o <<95>>) }

\* C23: whenever reconstruct treats a field as nested, the sub-mapping of the
\* recursive call holds every remaining flat key that shares the field's
\* prefix, stripped of the prefix, with its value, also when keys of no schema
\* field remain in the flat mapping and sort before the field's keys.
C23_SubMappingComplete ==
    pc = "reconstructed" =>
        \A i \in StepsOf("call") :
            LET sub_args == call.steps[i].sub_args
                slice_index == Len(call.steps[i].field) + 1
            IN /\ DOMAIN sub_args = { SliceFrom(key, slice_index) : key \in SharingPrefix(i) }
               /\ \A key \in SharingPrefix(i) :
                    sub_args[SliceFrom(key, slice_index)] = LevelArgs(i)[key]

\* C27: reconstruct works on a sorted copy: when it has returned or failed, the
\* caller's flat mapping holds the keys and values it held before the call; at
\* every level of the recursion no key was consumed twice; and each constructor
\* was given keyword arguments only for names of fields of its record class.
C27_ReconstructFrame ==
    pc = "reconstructed" =>
        /\ namespace = call.args
        /\ \A i, j \in StepsOf("pop") :
             (i # j /\ call.steps[i].path = call.steps[j].path)
                 => call.steps[i].key # call.steps[j].key
        /\ \A i \in StepsOf("construct") :
             call.steps[i].names \subseteq
                 FieldNames(IF call.steps[i].path = << >> THEN record_class
                            ELSE wrap_class(call.steps[i].cls))

\* A flat mapping with a key of the host was reconstructed to an instance with
\* a nested record: keys were consumed at the root and below it.
C27_Witness ==
    /\ pc = "reconstructed"
    /\ result.err = ""
    /\ <<122, 122>> \in DOMAIN namespace
    /\ \E i \in StepsOf("pop") : call.steps[i].path = << >>
    /\ \E i \in StepsOf("pop") : call.steps[i].path # << >>
    /\ \E i \in StepsOf("construct") :
         call.steps[i].path # << >> /\ call.steps[i].names # {}

\* ------------------------------------------- building onto a supplied parser

\* The fields of the root record classes built onto a supplied parser:
\*   a: Room     ab: int = 5     a_b: Suite     s: Short
\*   d: Sequence[str] without converter
SuppliedFieldPool ==
    { f \in RootFieldPool :
        \/ f.name \in { <<97>>, <<97, 98>>, <<115>> }
        \/ f.name = <<97, 95, 98>> /\ f.type.kind = "record"
        \/ f.name = <<100>> /\ f.default_factory = "" /\ DOMAIN f.metadata = {} }

\* The parsers a host supplies: one that declares --zz, and one that declares
\* --a-b-c, the flag of the field b_c of a Room nested under a.
SuppliedParsers ==
    { HostParser,
      << [option_strings |-> << <<45, 45, 97, 45, 98, 45, 99>> >>,
          dest |-> <<97, 95, 98, 95, 99>>, action |-> "store", kwargs |-> EmptyDict] >> }

\* The host has declared a record class and is about to call make_parser with
\* it and with its own parser.
InitSupplied ==
    /\ \E ds \in ImportOrders :
         /\ _dispatch = [r \in Registries |->
                           IF r = "GlobalRegistry" THEN RegisterAll(EmptyRegistry, ds)
                           ELSE EmptyRegistry]
         /\ registered = [r \in Registries |->
                            IF r = "GlobalRegistry" THEN ds ELSE << >>]
    /\ call = NoCall
    /\ pc = "start"
    /\ \E n \in 0..MaxFields :
         \E fs \in SchemasOfLen(n) \cap [1..n -> SuppliedFieldPool] :
           record_class = [cls |-> "Args", fields |-> fs, parser_params |-> DatargsParams]
    /\ \E declared \in SuppliedParsers :
         parser = [supplied |-> TRUE, declared |-> declared, params |-> HostParams]
    /\ argv = << >>
    /\ namespace = EmptyDict
    /\ result = Returned(MISSING)
    /\ _implementors = ImportedAdapters

NextSupplied == MakeParser

SpecSupplied == InitSupplied /\ [][NextSupplied]_vars

\* The option strings of the declared arguments, in the order of declaration.
OptionStrings(declared) == [i \in 1..Len(declared) |-> declared[i].option_strings]

\* The aliases of the actions, in order.
AliasesOf(actions) == [i \in 1..Len(actions) |-> actions[i]._aliases]

\* The aliases of the actions built for the first k fields, in order.
RECURSIVE AliasesOfFields(_, _)
AliasesOfFields(built, k) ==
    IF k = 0 THEN << >>
    ELSE AliasesOfFields(built, k - 1) \o AliasesOf(built[k].actions)

\* make_parser raised on the parser of the host; the field it failed at is the
\* last one build_actions was called for.
FailedOnSupplied == call.op = "make_parser" /\ pc = "make_failed" /\ parser.supplied
FailedAt == Len(call.built)

\* C30 as stated: when building onto a supplied parser fails at the k-th field,
\* the parser declares what the host declared and the flags of the fields
\* before k, and no flag of field k or of a later field.
C30_NoFlagOfFailedField ==
    FailedOnSupplied =>
        \E host \in SuppliedParsers :
            OptionStrings(parser.declared) =
                OptionStrings(host) \o AliasesOfFields(call.built, FailedAt - 1)

\* C30, amended: when building onto a supplied parser fails at the k-th field,
\* the parser declares what the host declared, the flags of the fields before
\* k, no flag of a later field, and of field k the flags that were added before
\* the one the parser rejected: none when build_actions raised for field k.
C30_FlagsBeforeFailure ==
    FailedOnSupplied =>
        \E host \in SuppliedParsers :
            \E n \in 0..Len(call.built[FailedAt].actions) :
                /\ n < Len(call.built[FailedAt].actions) \/ n = 0
                /\ OptionStrings(parser.declared) =
                       OptionStrings(host) \o AliasesOfFields(call.built, FailedAt - 1)
                       \o SubSeq(AliasesOf(call.built[FailedAt].actions), 1, n)

\* Building failed at the second field, a nested record whose second flag the
\* parser rejected: the flags of the first field and the first flag of the
\* second are declared.
C30_Witness ==
    /\ FailedOnSupplied
    /\ FailedAt = 2
    /\ call.built[1].actions # << >>
    /\ call.built[2].err = ""
    /\ Len(parser.declared) = 1 + Len(call.built[1].actions) + 1

\* ------------------------------------------------------- record class adapters

MaxImplementors == 4

\* The adapters: DataClass (records/dataclass.py), AttrClass (records/attrs.py)
\* and subclasses a host declares: one of DataClass, one for another kind of
\* record, and an abstract one.
Adapters ==
    {"DataClass", "AttrClass", "UserDataClass", "UserRecordClass", "AbstractRecordClass"}

\* cls.fields_attribute; a subclass that does not set it inherits it.
fields_attribute(cls) ==
    CASE cls \in {"DataClass", "UserDataClass"} -> "__dataclass_fields__"
      [] cls = "AttrClass" -> "__attrs_attrs__"
      [] cls = "UserRecordClass" -> "__record_fields__"
      [] OTHER -> "__invalid__"

\* inspect.isabstract(cls): fields_dict is not overridden.
isabstract(cls) == cls = "AbstractRecordClass"

\* A host class is the set of the field attributes it carries (not None): a
\* plain class carries none, a dataclass decorated with attr.s carries two.
HostClasses == SUBSET {"__dataclass_fields__", "__attrs_attrs__", "__record_fields__"}

\* RecordClass.__init_subclass__ for the declaration of cls.
init_subclass(implementors, cls) ==
    IF ~ isabstract(cls) THEN Append(implementors, cls) ELSE implementors

\* candidate.can_wrap_class(potential_record_class)
can_wrap_class(cls, potential_record_class) ==
    fields_attribute(cls) \in potential_record_class

\* The last candidate that can wrap host_class, 0 when there is none.
RECURSIVE LastCandidate(_, _, _)
LastCandidate(implementors, host_class, i) ==
    IF i > Len(implementors) THEN 0
    ELSE LET later == LastCandidate(implementors, host_class, i + 1)
         IN IF later # 0 THEN later
            ELSE IF can_wrap_class(implementors[i], host_class) THEN i ELSE 0

\* The loop of wrap_class from the i-th implementor on: the index of the first
\* candidate that can wrap host_class, 0 when the loop ends without one.
RECURSIVE FirstCandidate(_, _, _)
FirstCandidate(implementors, host_class, i) ==
    IF i > Len(implementors) THEN 0
    ELSE IF can_wrap_class(implementors[i], host_class) THEN i
    ELSE FirstCandidate(implementors, host_class, i + 1)

\* raise NotARecordClass(message)
RaisedNotARecordClass(message) ==
    [err |-> "NotARecordClass", val |-> MISSING, args |-> message]

\* RecordClass.wrap_class(host_class) with the given _implementors.
RecordClass_wrap_class(implementors, host_class) ==
    LET i == FirstCandidate(implementors, host_class, 1)
    IN IF i # 0
       THEN Returned([adapter |-> implementors[i], cls |-> host_class])
       ELSE IF "__attrs_attrs__" \in host_class
       THEN RaisedNotARecordClass("it is an attrs class and attrs is not installed")
       ELSE RaisedNotARecordClass("is not a dataclass nor an attrs class")

\* shogun.records is imported, with attrs installed or without it.
InitRecords ==
    /\ _dispatch = [r \in Registries |-> EmptyRegistry]
    /\ registered = [r \in Registries |-> << >>]
    /\ call = NoCall
    /\ pc = "records"
    /\ record_class = [cls |-> "Args", fields |-> << >>]
    /\ parser = NoParser
    /\ argv = << >>
    /\ namespace = EmptyDict
    /\ result = Returned(MISSING)
    /\ _implementors \in { << "DataClass" >>, ImportedAdapters }

\* The host declares a subclass of RecordClass.
DeclareAdapter(cls) ==
    /\ pc = "records"
    /\ Len(_implementors) < MaxImplementors
    /\ _implementors' = init_subclass(_implementors, cls)
    /\ call' = NoCall
    /\ UNCHANGED << _dispatch, registered, pipeline >>

\* RecordClass.wrap_class(host)
WrapClass(host) ==
    /\ pc = "records"
    /\ call' = [op |-> "wrap_class", record_class |-> host,
                result |-> RecordClass_wrap_class(_implementors, host)]
    /\ UNCHANGED << _dispatch, registered, pipeline, _implementors >>

NextRecords ==
    \/ \E cls \in Adapters \ {"DataClass", "AttrClass"} : DeclareAdapter(cls)
    \/ \E host \in HostClasses : WrapClass(host)

SpecRecords == InitRecords /\ [][NextRecords]_vars

\* The implementors whose probe accepts the host of the last wrap_class call.
Accepting ==
    { i \in 1..Len(_implementors) : fields_attribute(_implementors[i]) \in call.record_class }

\* C11: wrap_class returns the wrapper made by the first adapter, in the order
\* of registration, whose probe accepts the host class; when no registered
\* adapter accepts it, it raises NotARecordClass and returns no wrapper.
C11_WrapClass ==
    call.op = "wrap_class" =>
        IF Accepting # {}
        THEN LET first == CHOOSE i \in Accepting : \A j \in Accepting : i <= j
             IN call.result = Returned([adapter |-> _implementors[first],
                                        cls |-> call.record_class])
        ELSE /\ call.result.err = "NotARecordClass"
             /\ call.result.val = MISSING

\* Two different adapters accept the host, and the oldest one made the wrapper.
C11_Witness ==
    /\ call.op = "wrap_class"
    /\ \E i, j \in Accepting : i < j /\ _implementors[i] # _implementors[j]
    /\ call.result.err = ""
    /\ call.result.val.adapter = _implementors[1]

\* ------------------------------------------------------------- serialization

\* A value at run time is [t |-> the name of its class, v |-> its content]: a
\* string for a scalar, the elements for a tuple or a list, the items
\* [k |-> key, v |-> value] in insertion order for a dict, the attribute values
\* in the order of the fields for an instance of a record class.

MaxLen == 2
MaxOuterLen == 1

CORE_SERIALIZABLE_TYPES == {"str", "bool", "int", "float"}

\* The classes whose instances carry __getstate__: an attrs class declared with
\* slots=True (SlotsFurniture: x: str), whose state is the tuple of its
\* attribute values.  The other objects carry none (python_requires >= 3.6 of
\* setup.py; object has no __getstate__ before Python 3.11).
StatefulClasses == {"SlotsFurniture"}

\* hasattr(value, "__getstate__")
has_getstate(value) == value.t \in StatefulClasses

\* value.__getstate__()
getstate(value) == [t |-> "tuple", v |-> value.v]

\* str(value): the content of a str, an int, a float, a bool or a Path as a
\* str; for every other value the str that spells it out, kept as
\* [t |-> "str_of", v |-> value].
str(value) ==
    IF value.t \in {"str", "int", "float", "bool", "Path"} THEN V("str", value.v)
    ELSE [t |-> "str_of", v |-> value]

\* isinstance(value, Sequence) and isinstance(value, Mapping)
IsSequence(value) == value.t \in {"tuple", "list", "str"}
IsMapping(value) == value.t = "dict"

\* The elements a loop over a Sequence visits: the strings of the model have
\* one character, so a str yields itself once.
Elements(value) == IF value.t = "str" THEN << value >> ELSE value.v

\* type(v), as the dispatchers' is_type reads a type: a class of its own kind,
\* bool, or an attrs class.
TypeOf(value) ==
    [kind |-> IF value.t \in RecordClasses \cup StatefulClasses THEN "record"
              ELSE IF value.t = "bool" THEN "bool"
              ELSE "class",
     cls |-> value.t]

\* GlobalRegistry.find_dispatcher(type_): the first dispatcher, in the order of
\* dispatchers(), that accepts the type; "" when there is none.
find_dispatcher(self, type_) ==
    LET ds == dispatchers(self)
        i == FirstMatch(ds, type_, 1)
    IN IF i = 0 THEN "" ELSE ds[i]

\* as_serializable of DispatcherBool, DispatcherEnum and DispatcherLiteral: a
\* bool and a literal value pass unchanged, an Enum member becomes its name.
Concrete_as_serializable(d, value) ==
    IF d = "DispatcherEnum" THEN Returned(V("str", value.v)) ELSE Returned(value)

\* The fields of the class of an instance: RecordClass.wrap_class(type(value))
\* .fields_dict().values()
InstanceFields(cls) ==
    IF cls = "SlotsFurniture" THEN ClassFields("Furniture") ELSE ClassFields(cls)

RECURSIVE dispatcher_as_serializable(_, _, _)
RECURSIVE DispatcherDefault_as_serializable(_, _)
RECURSIVE DispatcherGenericContainer_as_serializable(_, _)
RECURSIVE DispatcherIsRecordClass_as_serializable(_, _)
RECURSIVE SerializeSequence(_, _, _, _)
RECURSIVE SerializeMapping(_, _, _, _)
RECURSIVE SerializeFields(_, _, _, _, _)

\* find_dispatcher(type_).as_serializable(value); find_dispatcher raises when no
\* dispatcher accepts the type.
find_and_serialize(GlobalRegistry, type_, value) ==
    LET d == find_dispatcher(GlobalRegistry, type_)
    IN IF d = "" THEN Failed("ValueError: Unexpected type")
       ELSE dispatcher_as_serializable(d, GlobalRegistry, value)

\* dispatcher.as_serializable(value), by the class of the dispatcher.
dispatcher_as_serializable(d, GlobalRegistry, value) ==
    CASE d = "DispatcherDefault" -> DispatcherDefault_as_serializable(GlobalRegistry, value)
      [] d = "DispatcherGenericContainer" ->
           DispatcherGenericContainer_as_serializable(GlobalRegistry, value)
      [] d = "DispatcherIsAttrs" ->
           DispatcherIsRecordClass_as_serializable(GlobalRegistry, value)
      [] OTHER -> Concrete_as_serializable(d, value)

\* DispatcherDefault.as_serializable(value)
DispatcherDefault_as_serializable(GlobalRegistry, value) ==
    IF value.t \in CORE_SERIALIZABLE_TYPES THEN Returned(value)
    ELSE IF has_getstate(value)
    THEN DispatcherGenericContainer_as_serializable(GlobalRegistry, getstate(value))
    ELSE Returned(str(value))

\* The loop over a Sequence from its i-th element on; seq_value holds the
\* elements converted so far.
SerializeSequence(GlobalRegistry, elements, i, seq_value) ==
    IF i > Len(elements) THEN Returned([t |-> "list", v |-> seq_value])
    ELSE LET v == elements[i]
             converted == find_and_serialize(GlobalRegistry, TypeOf(v), v)
         IN IF converted.err # "" THEN converted
            ELSE SerializeSequence(GlobalRegistry, elements, i + 1,
                                   Append(seq_value, converted.val))

\* map_value[k] = x
SetItem(map_value, k, x) ==
    IF \E j \in 1..Len(map_value) : map_value[j].k = k
    THEN [j \in 1..Len(map_value) |->
            IF map_value[j].k = k THEN [k |-> k, v |-> x] ELSE map_value[j]]
    ELSE Append(map_value, [k |-> k, v |-> x])

\* The error for a mapping that cannot be serialized.
UnserializableKey == "ValueError: Only core types are allowed to be keys"

\* The loop over the items of a Mapping from the i-th on; map_value holds the
\* items converted so far.
SerializeMapping(GlobalRegistry, items, i, map_value) ==
    IF i > Len(items) THEN Returned([t |-> "dict", v |-> map_value])
    ELSE LET k == items[i].k
             v == items[i].v
             v_type == TypeOf(v)
         IN IF v_type.cls \notin CORE_SERIALIZABLE_TYPES
            THEN Failed(UnserializableKey)
            ELSE LET converted == find_and_serialize(GlobalRegistry, v_type, v)
                 IN IF converted.err # "" THEN converted
                    ELSE SerializeMapping(GlobalRegistry, items, i + 1,
                                          SetItem(map_value, k, converted.val))

\* DispatcherGenericContainer.as_serializable(value)
DispatcherGenericContainer_as_serializable(GlobalRegistry, value) ==
    IF IsSequence(value) THEN SerializeSequence(GlobalRegistry, Elements(value), 1, << >>)
    ELSE IF IsMapping(value) THEN SerializeMapping(GlobalRegistry, value.v, 1, << >>)
    ELSE Returned(str(value))

\* The loop of as_serializable_dict over the fields from the i-th on; output
\* holds the entries made so far, values the attributes of the instance.
SerializeFields(GlobalRegistry, fields, values, i, output) ==
    IF i > Len(fields) THEN Returned([t |-> "dict", v |-> output])
    ELSE LET converted == find_and_serialize(GlobalRegistry, fields[i].type, values[i])
         IN IF converted.err # "" THEN converted
            ELSE SerializeFields(GlobalRegistry, fields, values, i + 1,
                                 SetItem(output, fields[i].name, converted.val))

\* as_serializable_dict(instance); fields are the fields of type(instance).
as_serializable_dict(GlobalRegistry, fields, instance) ==
    SerializeFields(GlobalRegistry, fields, instance.v, 1, << >>)

\* DispatcherIsRecordClass.as_serializable(value)
DispatcherIsRecordClass_as_serializable(GlobalRegistry, value) ==
    IF has_getstate(value)
    THEN DispatcherGenericContainer_as_serializable(GlobalRegistry, getstate(value))
    ELSE as_serializable_dict(GlobalRegistry, InstanceFields(value.t), value)

\* The sequences over S of length up to n.
SeqsUpTo(S, n) == UNION { [1..k -> S] : k \in 0..n }

\* The values containers are made of: a str and a Path.
Leaves == { V("str", "a"), V("Path", "/tmp") }

\* The keys of the mappings: a str, an int and a tuple.
Keys == { V("str", "k"), V("int", "1"), [t |-> "tuple", v |-> << V("int", "1") >>] }

\* The tuples and the dicts (with distinct keys) of up to n elements of S.
Containers(S, n) ==
    { [t |-> "tuple", v |-> es] : es \in SeqsUpTo(S, n) }
    \cup
    { [t |-> "dict", v |-> items] :
        items \in { its \in SeqsUpTo([k : Keys, v : S], n) :
                      \A i, j \in 1..Len(its) : i # j => its[i].k # its[j].k } }

\* The containers handed to the generic-container rule: of leaves, and of
\* leaves and such containers.
InnerContainers == Containers(Leaves, MaxLen)
ContainerValues == InnerContainers \cup Containers(Leaves \cup InnerContainers, MaxOuterLen)

\* The fields of the instances that are serialized, each with the value the
\* instance holds: the fields of AllTheFields and ContainsNested of the tests,
\* with the attrs classes of the schemas for the nested ones.
SerializedFields ==
    { [field |-> Field(<<115>>, "class", "str", MISSING, "", EmptyDict),
       value |-> V("str", "a")],
      [field |-> Field(<<105>>, "class", "int", MISSING, "", EmptyDict),
       value |-> V("int", "1")],
      [field |-> Field(<<98>>, "bool", "bool", MISSING, "", EmptyDict),
       value |-> V("bool", "True")],
      [field |-> Field(<<112>>, "class", "Path", MISSING, "", EmptyDict),
       value |-> V("Path", "/tmp")],
      [field |-> Field(<<113>>, "generic", "Sequence[str]", MISSING, "", EmptyDict),
       value |-> [t |-> "tuple", v |-> << V("str", "a"), V("str", "a") >>]],
      [field |-> Field(<<109>>, "generic", "Mapping[str, str]", MISSING, "", EmptyDict),
       value |-> [t |-> "dict", v |-> << [k |-> V("str", "k"), v |-> V("str", "a")] >>]],
      [field |-> Field(<<110>>, "generic", "Mapping[str, Sequence[str]]", MISSING, "",
                       EmptyDict),
       value |-> [t |-> "dict",
                  v |-> << [k |-> V("str", "k"),
                            v |-> [t |-> "list", v |-> << V("str", "a") >>]] >>]],
      [field |-> Field(<<102>>, "record", "Furniture", MISSING, "", EmptyDict),
       value |-> [t |-> "Furniture", v |-> << V("str", "a") >>]],
      [field |-> Field(<<114>>, "record", "Room", MISSING, "", EmptyDict),
       value |-> [t |-> "Room",
                  v |-> << [t |-> "Furniture", v |-> << V("str", "a") >>],
                           V("int", "3") >>]],
      [field |-> Field(<<103>>, "record", "SlotsFurniture", MISSING, "", EmptyDict),
       value |-> [t |-> "SlotsFurniture", v |-> << V("str", "a") >>]],
      [field |-> Field(<<101>>, "record", "Empty", MISSING, "", EmptyDict),
       value |-> [t |-> "Empty", v |-> << >>]] }

\* The instances of TestCls with up to MaxFields of these fields, as the
\* sequence of its fields with their values.
TestInstances ==
    { fvs \in SeqsUpTo(SerializedFields, MaxFields) :
        \A i, j \in 1..Len(fvs) : i # j => fvs[i] # fvs[j] }

\* The dispatcher classes are declared; the host is about to serialize one
\* value.
InitSerialize ==
    /\ \E ds \in ImportOrders :
         /\ _dispatch = [r \in Registries |->
                           IF r = "GlobalRegistry" THEN RegisterAll(EmptyRegistry, ds)
                           ELSE EmptyRegistry]
         /\ registered = [r \in Registries |->
                            IF r = "GlobalRegistry" THEN ds ELSE << >>]
    /\ call = NoCall
    /\ pc = "serialize"
    /\ record_class = [cls |-> "Args", fields |-> << >>]
    /\ parser = NoParser
    /\ argv = << >>
    /\ namespace = EmptyDict
    /\ result = Returned(MISSING)
    /\ _implementors = ImportedAdapters

\* DispatcherGenericContainer.as_serializable(value)
ContainerAsSerializable(value) ==
    /\ pc = "serialize"
    /\ call' = [op |-> "as_serializable", value |-> value,
                result |-> DispatcherGenericContainer_as_serializable(
                               _dispatch["GlobalRegistry"], value)]
    /\ pc' = "serialized"
    /\ UNCHANGED << _dispatch, registered, record_class, parser, argv, namespace, result,
                    _implementors >>

\* as_serializable_dict(instance) for the instance of TestCls with the fields
\* and values of fvs.
AsSerializableDict(fvs) ==
    /\ pc = "serialize"
    /\ LET fields == [i \in 1..Len(fvs) |-> fvs[i].field]
           instance == [t |-> "TestCls", v |-> [i \in 1..Len(fvs) |-> fvs[i].value]]
       IN call' = [op |-> "as_serializable_dict", fields |-> fields, instance |-> instance,
                   result |-> as_serializable_dict(_dispatch["GlobalRegistry"], fields,
                                                   instance)]
    /\ pc' = "serialized"
    /\ UNCHANGED << _dispatch, registered, record_class, parser, argv, namespace, result,
                    _implementors >>

NextSerialize ==
    \/ \E value \in ContainerValues : ContainerAsSerializable(value)
    \/ \E fvs \in TestInstances : AsSerializableDict(fvs)

SpecSerialize == InitSerialize /\ [][NextSerialize]_vars

\* ------------------------------------------------- what serialization returns

\* The mapping has a key that is not a str, a bool, an int or a float.
HasNonScalarKey(value) ==
    \E i \in 1..Len(value.v) : value.v[i].k.t \notin CORE_SERIALIZABLE_TYPES

\* Every mapping in the value, at any depth, has scalar keys only.
RECURSIVE MappingsScalarKeyed(_)
MappingsScalarKeyed(value) ==
    CASE value.t = "dict" ->
           /\ ~ HasNonScalarKey(value)
           /\ \A i \in 1..Len(value.v) : MappingsScalarKeyed(value.v[i].v)
      [] value.t \in {"tuple", "list"} ->
           \A i \in 1..Len(value.v) : MappingsScalarKeyed(value.v[i])
      [] OTHER -> TRUE

\* C17: serializing a mapping that has a non-scalar key fails with the error
\* for unserializable keys, and serializing a mapping whose keys are all
\* scalar, the keys of the mappings inside it included, never fails with it.
C17_UnserializableKey ==
    (call.op = "as_serializable" /\ IsMapping(call.value)) =>
        /\ HasNonScalarKey(call.value) => call.result.err = UnserializableKey
        /\ MappingsScalarKeyed(call.value) => call.result.err # UnserializableKey

\* The structure that keeps the order of the elements and the keys and has
\* every leaf converted: a str unchanged, a Path as its str.
RECURSIVE Elementwise(_)
Elementwise(value) ==
    CASE value.t \in {"tuple", "list"} ->
           [t |-> "list", v |-> [i \in 1..Len(value.v) |-> Elementwise(value.v[i])]]
      [] value.t = "dict" ->
           [t |-> "dict", v |-> [i \in 1..Len(value.v) |->
                                   [k |-> value.v[i].k, v |-> Elementwise(value.v[i].v)]]]
      [] OTHER -> IF value.t \in CORE_SERIALIZABLE_TYPES THEN value ELSE str(value)

\* C18: serializing a sequence or a mapping with scalar keys recurses element
\* by element: a mapping from strings to sequences and a sequence of mappings
\* serialize to the same structure, every leaf converted, the order of the
\* elements and the keys kept.
C18_Elementwise ==
    (call.op = "as_serializable" /\ MappingsScalarKeyed(call.value)) =>
        call.result = Returned(Elementwise(call.value))

\* What as_serializable_dict is to return for the i-th field: the value of a
\* core type unchanged, for a nested record the mapping as_serializable_dict
\* makes of the nested instance, the str of another value that the default
\* rule handles.
FieldSerialized(i) ==
    LET field == call.fields[i]
        value == call.instance.v[i]
        entry == call.result.val.v[i]
        nested == as_serializable_dict(_dispatch["GlobalRegistry"],
                                       InstanceFields(value.t), value)
    IN /\ entry.k = field.name
       /\ value.t \in CORE_SERIALIZABLE_TYPES => entry.v = value
       /\ field.type.kind = "record" => (nested.err = "" /\ entry.v = nested.val)
       /\ ( /\ value.t \notin CORE_SERIALIZABLE_TYPES
            /\ find_dispatcher(_dispatch["GlobalRegistry"], field.type)
                 = "DispatcherDefault" ) => entry.v = str(value)

\* C19: as_serializable_dict returns a mapping with one entry for each field of
\* the instance's class, keyed by the names of the fields in the order of their
\* declaration: a value of a core type unchanged, a nested record as the
\* mapping the same procedure makes of it, another value that the default rule
\* handles as its str.
C19_SerializableDict ==
    call.op = "as_serializable_dict" =>
        /\ call.result.err = ""
        /\ Len(call.result.val.v) = Len(call.fields)
        /\ \A i \in 1..Len(call.fields) : FieldSerialized(i)

\* ------------------------------------- a lookup interleaved with registry calls

\* The dispatcher classes of the interleaved calls: two of one priority and one
\* of another.
LookupDispatchers == { "DispatcherBool", "DispatcherEnum", "DispatcherGenericContainer" }

\* Calls of register, deregister and clear while one generator is suspended.
MaxMutations == 2

\* The list the generator holds for the priority: the list object of _dispatch
\* as long as the dict still holds it, else that object as clear() left it.
HeldList(p) ==
    IF call.attached THEN _dispatch[call.reg][p] ELSE call.held[p]

\* Where `for dispatcher in dispatchers` of the generator is after the next
\* step: the list iterator of the k-th key of the sorted items has handed out i
\* elements; an exhausted list iterator makes the outer loop take the next key.
RECURSIVE NextItem(_, _, _, _)
NextItem(keys, lists, k, i) ==
    IF k > Len(keys) THEN [k |-> k, i |-> 0, found |-> FALSE]
    ELSE IF i < Len(lists[keys[k]]) THEN [k |-> k, i |-> i + 1, found |-> TRUE]
    ELSE NextItem(keys, lists, k + 1, 0)

\* The global registry after the dispatcher classes of some modules were
\* declared; no generator exists yet.
InitLookup ==
    /\ \E ds \in SeqsUpTo(LookupDispatchers, MaxRegs - 1) :
         /\ _dispatch = [r \in Registries |->
                           IF r = "GlobalRegistry" THEN RegisterAll(EmptyRegistry, ds)
                           ELSE EmptyRegistry]
         /\ registered = [r \in Registries |->
                            IF r = "GlobalRegistry" THEN ds ELSE << >>]
    /\ call = NoCall
    /\ pc = "lookup"
    /\ record_class = [cls |-> "Args", fields |-> << >>]
    /\ parser = NoParser
    /\ argv = << >>
    /\ namespace = EmptyDict
    /\ result = Returned(MISSING)
    /\ _implementors = ImportedAdapters

\* The generator of GlobalRegistry.dispatchers() evaluates
\* sorted(self._dispatch.items(), reverse=True): it holds the keys the dict has
\* now and, for each, the list object of the dict.  seen collects what
\* dispatchers() would yield at each instant from now on.
StartLookup ==
    /\ pc = "lookup"
    /\ call' = [op |-> "dispatchers", reg |-> "GlobalRegistry",
                keys |-> SortedReverse({ p \in Priorities :
                                           _dispatch["GlobalRegistry"][p] # << >> }),
                attached |-> TRUE, held |-> EmptyRegistry,
                k |-> 1, i |-> 0, visited |-> << >>,
                seen |-> { dispatchers(_dispatch["GlobalRegistry"]) },
                mutations |-> 0]
    /\ pc' = "iterating"
    /\ UNCHANGED << _dispatch, registered, record_class, parser, argv, namespace, result,
                    _implementors >>

\* next() on the generator: it yields the next dispatcher of the lists it
\* holds, or it is exhausted.
GeneratorNext ==
    /\ pc = "iterating"
    /\ LET lists == [p \in Priorities |-> HeldList(p)]
           n == NextItem(call.keys, lists, call.k, call.i)
       IN IF n.found
          THEN /\ call' = [call EXCEPT !.k = n.k, !.i = n.i,
                                       !.visited = Append(@, lists[call.keys[n.k]][n.i])]
               /\ pc' = "iterating"
          ELSE /\ call' = [call EXCEPT !.k = n.k, !.i = n.i]
               /\ pc' = "exhausted"
    /\ UNCHANGED << _dispatch, registered, record_class, parser, argv, namespace, result,
                    _implementors >>

\* GlobalRegistry.register(d) while the generator is suspended, by the consumer
\* of the generator or by another thread.
RegisterDuringLookup(d) ==
    /\ pc = "iterating"
    /\ call.mutations < MaxMutations
    /\ Registrations < MaxRegs
    /\ _dispatch' = [_dispatch EXCEPT ![call.reg] = register(@, d)]
    /\ registered' = [registered EXCEPT ![call.reg] = Append(@, d)]
    /\ call' = [call EXCEPT !.seen = @ \cup { dispatchers(register(_dispatch[call.reg], d)) },
                            !.mutations = @ + 1]
    /\ UNCHANGED << pipeline, _implementors >>

\* GlobalRegistry.deregister(d) while the generator is suspended.
DeregisterDuringLookup(d) ==
    /\ pc = "iterating"
    /\ call.mutations < MaxMutations
    /\ _dispatch' = [_dispatch EXCEPT ![call.reg] = deregister(@, d)]
    /\ registered' = [registered EXCEPT ![call.reg] = ListRemove(@, d)]
    /\ call' = [call EXCEPT !.seen = @ \cup { dispatchers(deregister(_dispatch[call.reg], d)) },
                            !.mutations = @ + 1]
    /\ UNCHANGED << pipeline, _implementors >>

\* GlobalRegistry.clear() while the generator is suspended: the dict drops its
\* lists, the generator keeps the list objects it holds.
ClearDuringLookup ==
    /\ pc = "iterating"
    /\ call.mutations < MaxMutations
    /\ _dispatch' = [_dispatch EXCEPT ![call.reg] = clear(@)]
    /\ registered' = [registered EXCEPT ![call.reg] = << >>]
    /\ call' = [call EXCEPT !.held = [p \in Priorities |-> HeldList(p)],
                            !.attached = FALSE,
                            !.seen = @ \cup { dispatchers(clear(_dispatch[call.reg])) },
                            !.mutations = @ + 1]
    /\ UNCHANGED << pipeline, _implementors >>

NextLookup ==
    \/ StartLookup
    \/ GeneratorNext
    \/ \E d \in LookupDispatchers : RegisterDuringLookup(d)
    \/ \E d \in LookupDispatchers : DeregisterDuringLookup(d)
    \/ ClearDuringLookup

SpecLookup == InitLookup /\ [][NextLookup]_vars

\* C25: a lookup interleaved with register, deregister or clear on the same
\* registry observes a snapshot: the rules the exhausted generator visited are,
\* in order, the priority-ordered rule list the registry had at one single
\* instant of the lookup.
C25_LookupSnapshot ==
    pc = "exhausted" => call.visited \in call.seen

\* ------------------------------------------------- parse, one call at a time

\* The fields of the root record classes whose parse is followed call by call:
\*   a: Room     ab: int = 5     a_b: Suite     s: Short
\*   d: Sequence[str] without converter
SteppedFieldPool == SuppliedFieldPool

\* A record class that is wrapped in place of the class of the field.
own_record_class(outer_fields, field) == outer_fields

\* RecordClass.wrap_class(field.type).fields_dict(): the fields the recursion
\* of build_actions and of the reconstruction descends into.
sub_record_class(outer_fields, field) == wrap_class(field.type.cls).fields

\* The frame of _make_parser (the first of the stack) or of
\* DispatcherIsRecordClass.build_actions: its loop is at the k-th field and has
\* collected actions.
BuildFrame(prefix, fields) ==
    [prefix |-> prefix, fields |-> fields, k |-> 1, actions |-> << >>]

\* The frame of build_record_instance_from_parsed_args for the field of its
\* caller: its loop is at the k-th of the sorted names, args are the keys left.
ReconstructFrame(cls, fields, args, field_name) ==
    [rc |-> [cls |-> cls, fields |-> fields],
     names |-> SortedStrs({ fields[i].name : i \in 1..Len(fields) }),
     k |-> 1, args |-> args, unpacked |-> EmptyDict, field |-> field_name]

\* The last frame of the stack is handed the actions of its k-th field:
\* _make_parser declares them on the parser, the nested-record rule prefixes
\* and collects them; the loop goes on to the next field.
Deliver(stack, actions, declared) ==
    LET j == Len(stack)
    IN IF j = 1
       THEN LET r == AddActions(declared, actions, 1)
            IN [err |-> r.err, stack |-> [stack EXCEPT ![1].k = @ + 1],
                declared |-> r.declared]
       ELSE LET prefixed == PrefixAll(actions, stack[j].prefix, 1)
            IN [err |-> prefixed.err,
                stack |-> [stack EXCEPT ![j].k = @ + 1,
                                        ![j].actions = @ \o prefixed.actions],
                declared |-> declared]

\* One call or return of the flag building: the last frame returns its actions
\* to its caller, or its loop calls build_actions for its k-th field, which
\* for a nested record is a new frame.  ds is what GlobalRegistry.dispatchers()
\* yields.
BuildOutcome(stack, declared, GlobalRegistry, ds) ==
    LET j == Len(stack)
        top == stack[j]
    IN IF top.k > Len(top.fields)
       THEN IF j = 1 THEN [err |-> "", stack |-> << >>, declared |-> declared]
            ELSE Deliver(SubSeq(stack, 1, j - 1), top.actions, declared)
       ELSE LET field == top.fields[top.k]
                m == FirstMatch(ds, field.type, 1)
            IN IF m = 0
               THEN [err |-> "ValueError: Unexpected type for field", stack |-> stack,
                     declared |-> declared]
               ELSE IF ds[m] = "DispatcherIsAttrs"
               THEN [err |-> "",
                     stack |-> Append(stack,
                                  BuildFrame(StrReplace(field.name, 95, 45),
                                             sub_record_class(top.fields, field))),
                     declared |-> declared]
               ELSE CHOOSE outcome \in
                        { IF built.err # ""
                          THEN [err |-> built.err, stack |-> stack, declared |-> declared]
                          ELSE Deliver(stack, built.actions, declared) :
                            built \in { dispatcher_build_actions(ds[m], GlobalRegistry,
                                                                 field) } } : TRUE

\* One call or return of the reconstruction: the last frame constructs its
\* instance and returns it to its caller, or its loop handles its k-th field,
\* which for a nested field is a new frame with sub_args.  keys is list(args)
\* of the last frame.
ReconstructOutcome(stack, keys) ==
    LET j == Len(stack)
        top == stack[j]
    IN IF top.k > Len(top.names)
       THEN LET r == Construct(top.rc, top.unpacked)
            IN IF r.err # "" THEN [err |-> r.err, stack |-> stack, val |-> MISSING]
               ELSE IF j = 1 THEN [err |-> "", stack |-> << >>, val |-> r.val]
               ELSE [err |-> "",
                     stack |-> [SubSeq(stack, 1, j - 1) EXCEPT
                                  ![j - 1].unpacked = (top.field :> r.val) @@ @,
                                  ![j - 1].k = @ + 1],
                     val |-> MISSING]
       ELSE LET field_name == top.names[top.k]
                field == FieldNamed(top.rc, field_name)
                hit == FirstWithPrefix(keys, field_name, 1)
            IN IF hit = 0
               THEN [err |-> "", stack |-> [stack EXCEPT ![j].k = @ + 1], val |-> MISSING]
               ELSE IF keys[hit] = field_name
               THEN [err |-> "",
                     stack |-> [stack EXCEPT
                                  ![j].k = @ + 1,
                                  ![j].args = [key \in (DOMAIN top.args) \ {field_name}
                                                 |-> top.args[key]],
                                  ![j].unpacked = (field_name :> top.args[field_name]) @@ @],
                     val |-> MISSING]
               ELSE LET slice_index == Len(field_name) + 1
                        n == FrontRun(keys, field_name, 0)
                        sub_args == SubArgs(keys, n, top.args, slice_index)
                        rest == [key \in (DOMAIN top.args) \ {keys[i] : i \in 1..n}
                                   |-> top.args[key]]
                    IN IF field.type.kind # "record"
                       THEN [err |-> "NotARecordClass", stack |-> stack, val |-> MISSING]
                       ELSE [err |-> "",
                             stack |-> Append([stack EXCEPT ![j].args = rest],
                                         ReconstructFrame(field.type.cls,
                                             sub_record_class(top.rc.fields, field),
                                             sub_args, field_name)),
                             val |-> MISSING]

\* The greater of two numbers.
Max(x, y) == IF x >= y THEN x ELSE y

\* The host has declared a record class and is about to call parse with it.
InitSteps ==
    /\ \E ds \in ImportOrders :
         /\ _dispatch = [r \in Registries |->
                           IF r = "GlobalRegistry" THEN RegisterAll(EmptyRegistry, ds)
                           ELSE EmptyRegistry]
         /\ registered = [r \in Registries |->
                            IF r = "GlobalRegistry" THEN ds ELSE << >>]
    /\ call = NoCall
    /\ pc = "start"
    /\ \E n \in 0..MaxFields :
         \E fs \in SchemasOfLen(n) \cap [1..n -> SteppedFieldPool] :
           record_class = [cls |-> "Args", fields |-> fs, parser_params |-> DatargsParams]
    /\ parser = NoParser
    /\ argv = << >>
    /\ namespace = EmptyDict
    /\ result = Returned(MISSING)
    /\ _implementors = ImportedAdapters

\* parse(cls, args) calls make_parser, which constructs the parser and enters
\* the loop of _make_parser.
EnterMakeParser ==
    /\ pc = "start"
    /\ parser' = ArgumentParser(record_class.parser_params)
    /\ call' = [op |-> "parse", stack |-> << BuildFrame(<< >>, record_class.fields) >>,
                deepest |-> 1]
    /\ pc' = "building"
    /\ UNCHANGED << _dispatch, registered, record_class, argv, namespace, result,
                    _implementors >>

\* The next call or return of the flag building.
BuildStep ==
    /\ pc = "building"
    /\ \E ds \in { dispatchers(_dispatch["GlobalRegistry"]) } :
       \E outcome \in { BuildOutcome(call.stack, parser.declared,
                                      _dispatch["GlobalRegistry"], ds) } :
          /\ parser' = [parser EXCEPT !.declared = outcome.declared]
          /\ call' = [call EXCEPT !.stack = outcome.stack,
                                  !.deepest = Max(@, Len(outcome.stack))]
          /\ result' = IF outcome.err # "" THEN Failed(outcome.err) ELSE result
          /\ pc' = IF outcome.err # "" THEN "make_failed"
                   ELSE IF outcome.stack = << >> THEN "made"
                   ELSE "building"
    /\ UNCHANGED << _dispatch, registered, record_class, argv, namespace, _implementors >>

\* parse_args with a command line that gives every declared argument or none,
\* and the call of build_record_instance_from_parsed_args with its result.
ParseArgs ==
    /\ pc = "made"
    /\ \E args \in { av \in ArgvChoices(parser.declared, 1) :
                        Len(av) \in {0, Len(parser.declared)} } :
         \E parsed \in { parse_args(parser.declared, args) } :
            /\ argv' = args
            /\ IF parsed.err # ""
               THEN /\ namespace' = EmptyDict
                    /\ result' = Failed(parsed.err)
                    /\ pc' = "parse_failed"
                    /\ call' = call
               ELSE /\ namespace' = parsed.namespace
                    /\ result' = result
                    /\ pc' = "reconstructing"
                    /\ call' = [call EXCEPT !.stack =
                                   << ReconstructFrame(record_class.cls, record_class.fields,
                                                       parsed.namespace, << >>) >>]
    /\ UNCHANGED << _dispatch, registered, record_class, parser, _implementors >>

\* The next call or return of the reconstruction.
ReconstructStep ==
    /\ pc = "reconstructing"
    /\ \E keys \in { SortedStrs(DOMAIN call.stack[Len(call.stack)].args) } :
       \E outcome \in { ReconstructOutcome(call.stack, keys) } :
          /\ call' = [call EXCEPT !.stack = outcome.stack,
                                  !.deepest = Max(@, Len(outcome.stack))]
          /\ result' = IF outcome.err # "" THEN Failed(outcome.err)
                       ELSE IF outcome.stack = << >> THEN Returned(outcome.val)
                       ELSE result
          /\ pc' = IF outcome.err # "" THEN "reconstruct_failed"
                   ELSE IF outcome.stack = << >> THEN "parsed"
                   ELSE "reconstructing"
    /\ UNCHANGED << _dispatch, registered, record_class, parser, argv, namespace,
                    _implementors >>

NextSteps ==
    \/ EnterMakeParser
    \/ BuildStep
    \/ ParseArgs
    \/ ReconstructStep

\* parse runs in one thread, which takes its next step whenever it has one.
SpecSteps == InitSteps /\ [][NextSteps]_vars /\ WF_vars(NextSteps)

\* The nesting depth of a schema: 0 without record fields.
RECURSIVE NestingDepth(_)
NestingDepth(fields) ==
    IF \A i \in 1..Len(fields) : fields[i].type.kind # "record" THEN 0
    ELSE LET depths == { 1 + NestingDepth(ClassFields(fields[i].type.cls)) :
                           i \in { k \in 1..Len(fields) : fields[k].type.kind = "record" } }
         IN CHOOSE d \in depths : \A e \in depths : e <= d

\* parse has returned or raised.
Terminated == pc \in {"make_failed", "parse_failed", "reconstruct_failed", "parsed"}

\* The calls, taken one at a time, arrive at what make_parser and the
\* reconstruction compute as a whole.
StepsAgree ==
    /\ pc \in {"made", "make_failed"} =>
         LET made == make_parser(record_class, << >>, _dispatch["GlobalRegistry"])
         IN parser.declared = made.declared /\ (pc = "make_failed") = (made.err # "")
    /\ pc \in {"parsed", "reconstruct_failed"} =>
         result = build_record_instance_from_parsed_args(record_class, namespace)

\* C28: for every acyclic schema and every argv parse terminates: the recursive
\* flag building and the recursive reconstruction arrive at a result or at an
\* error, and the recursion is never deeper than the nesting depth of the
\* schema (the stack holds the first call and one frame per level).
C28_ParseTerminates ==
    /\ <>Terminated
    /\ [](call.op = "parse" =>
            Len(call.stack) <= 1 + NestingDepth(record_class.fields))

\* parse returned an instance of a schema that nests two levels deep, and the
\* recursion went down both levels.
C28_Witness ==
    /\ pc = "parsed"
    /\ result.err = ""
    /\ NestingDepth(record_class.fields) = 2
    /\ call.deepest = 3

\* ------------------------------------------------ declaring dispatcher classes

\* The subclasses of DispatcherBase that are declared: the concrete classes,
\* the abstract classes of the repository (DispatcherIsSubclass,
\* DispatcherIsRecordClass and DispatcherIsDataclass leave abstract methods
\* open and define no priority), and classes of a host: an abstract one with a
\* priority, a concrete one without priority and one with the priority -1.
DispatcherClasses ==
    Dispatchers \cup
    { "DispatcherIsSubclass", "DispatcherIsRecordClass", "DispatcherIsDataclass",
      "DispatcherAbstractLow", "DispatcherNoPriority", "DispatcherNegative" }

\* inspect.isabstract(cls): the class leaves an abstract method open.
dispatcher_isabstract(cls) ==
    cls \in { "DispatcherIsSubclass", "DispatcherIsRecordClass", "DispatcherIsDataclass",
              "DispatcherAbstractLow" }

\* hasattr(cls, "priority"): DispatcherBase only annotates the attribute.
hasattr_priority(cls) ==
    cls \in Dispatchers \cup { "DispatcherAbstractLow", "DispatcherNegative" }

\* cls.priority of a class that has the attribute.
class_priority(cls) ==
    CASE cls = "DispatcherNegative" -> -1
      [] cls = "DispatcherAbstractLow" -> LOWEST
      [] OTHER -> priority(cls)

\* What __init_subclass__ raises and leaves in the _dispatch of the global
\* registry.
Declared(err, GlobalRegistry) == [err |-> err, _dispatch |-> GlobalRegistry]

\* An __init_subclass__ that checks the priority of abstract classes as well.
init_subclass_unconditional(GlobalRegistry, cls) ==
    IF ~ hasattr_priority(cls)
    THEN Declared("TypeError: must define 'priority' class attribute", GlobalRegistry)
    ELSE IF class_priority(cls) < 0
    THEN Declared("TypeError: must define a priority >= 0", GlobalRegistry)
    ELSE IF dispatcher_isabstract(cls) THEN Declared("", GlobalRegistry)
    ELSE Declared("", register(GlobalRegistry, cls))

\* DispatcherBase.__init_subclass__ for the declaration of cls.
DispatcherBase_init_subclass(GlobalRegistry, cls) ==
    IF ~ dispatcher_isabstract(cls)
    THEN IF ~ hasattr_priority(cls)
         THEN Declared("TypeError: must define 'priority' class attribute", GlobalRegistry)
         ELSE IF class_priority(cls) < 0
         THEN Declared("TypeError: must define a priority >= 0", GlobalRegistry)
         ELSE Declared("", register(GlobalRegistry, cls))
    ELSE Declared("", GlobalRegistry)

\* dispatch/registry.py was imported; no subclass of DispatcherBase is declared
\* yet.
InitDeclare ==
    /\ _dispatch = [r \in Registries |-> EmptyRegistry]
    /\ registered = [r \in Registries |-> << >>]
    /\ call = NoCall
    /\ pc = "declare"
    /\ record_class = [cls |-> "Args", fields |-> << >>]
    /\ parser = NoParser
    /\ argv = << >>
    /\ namespace = EmptyDict
    /\ result = Returned(MISSING)
    /\ _implementors = ImportedAdapters

\* The class statement of cls, a subclass of DispatcherBase, is executed (once
\* for each class that comes to exist).
DeclareDispatcher(cls) ==
    /\ pc = "declare"
    /\ Registrations < MaxRegs
    /\ Count(registered["GlobalRegistry"], cls) = 0
    /\ \E declared \in { DispatcherBase_init_subclass(_dispatch["GlobalRegistry"], cls) } :
         /\ _dispatch' = [_dispatch EXCEPT !["GlobalRegistry"] = declared._dispatch]
         /\ registered' = IF declared._dispatch = _dispatch["GlobalRegistry"] THEN registered
                          ELSE [registered EXCEPT !["GlobalRegistry"] = Append(@, cls)]
         /\ call' = [op |-> "class", cls |-> cls, err |-> declared.err,
                     before |-> _dispatch["GlobalRegistry"]]
    /\ UNCHANGED << pipeline, _implementors >>

NextDeclare == \E cls \in DispatcherClasses : DeclareDispatcher(cls)

SpecDeclare == InitDeclare /\ [][NextDeclare]_vars

\* C29: the declaration of a concrete dispatcher class with a priority >= 0
\* registers it once in the global registry, in the list of its priority, and
\* changes nothing else; the declaration of a concrete class without priority
\* or with a priority below 0 raises TypeError and leaves the global registry
\* as it was; an abstract class is not registered.
C29_DeclarationRegisters ==
    call.op = "class" =>
        LET cls == call.cls
            after == _dispatch["GlobalRegistry"]
        IN IF dispatcher_isabstract(cls)
           THEN /\ call.err = ""
                /\ after = call.before
                /\ Count(dispatchers(after), cls) = 0
           ELSE IF hasattr_priority(cls) /\ class_priority(cls) >= 0
           THEN /\ call.err = ""
                /\ Count(dispatchers(after), cls) = 1
                /\ Count(after[class_priority(cls)], cls) = 1
                /\ after = [call.before EXCEPT ![class_priority(cls)] = Append(@, cls)]
           ELSE /\ call.err \in { "TypeError: must define 'priority' class attribute",
                                  "TypeError: must define a priority >= 0" }
                /\ after = call.before

\* After two concrete classes were registered, a class without priority was
\* declared and raised.
C29_Witness ==
    /\ call.op = "class"
    /\ call.cls = "DispatcherNoPriority"
    /\ call.err # ""
    /\ Len(dispatchers(_dispatch["GlobalRegistry"])) = 2

====
